---------------------------- MODULE Spec2Model ----------------------------
(***************************************************************************)
(* Wolt/Fina synchroniser: the SyncEngine run, the per-store StateManager, *)
(* the WoltRateLimiter, the AdaptiveBatcher, the scheduler process, the    *)
(* CircuitBreaker and withRetry,                                           *)
(* each as a state machine translated from the TypeScript source.  The     *)
(* module holds several specifications over one set of variables; a        *)
(* specification leaves the variables of the components it does not        *)
(* exercise at their initial value.                                        *)
(*   SpecSync   SyncEngine.runWithOptions, one store, run after run        *)
(*   SpecState  StateManager.loadState over arbitrary file contents        *)
(*   SpecBatch  AdaptiveBatcher: getCurrentBatchSize, onSuccess,           *)
(*              onRateLimit on one venue                                   *)
(*   SpecPush   the adaptive-batched push loops (HybridSyncOrchestrator,   *)
(*              BackgroundWorker)                                          *)
(*   SpecRate   WoltRateLimiter + withWoltApiRetry on one venue            *)
(*   SpecRun    one SyncEngine run over the files it finds, with 429       *)
(*              answers retried inside the adapter call, 409 answers and   *)
(*              the marketplace breaker                                    *)
(*   SpecSave   StateManager.saveState under failing file operations,      *)
(*              and the loadState that follows                             *)
(*   SpecSched  the scheduler process: timers, POST /trigger-sync,         *)
(*              runAllSyncs and runSingleStoreSync                         *)
(*   SpecBreaker  one CircuitBreaker, call after call                      *)
(*   SpecRetry  one withRetry call under each of its entry points          *)
(*   SpecScorer PriorityScorer: scoreAndSort and getTopPriority            *)
(*   SpecWorker BackgroundWorker.syncNextBatch, iteration after iteration, *)
(*              with stop() arriving at any point                          *)
(*   SpecFlagged  one SyncEngine run over a state file whose entries carry *)
(*              the syncedToWolt flag                                      *)
(*   SpecOverlap  a scheduled SyncEngine run during a BackgroundWorker     *)
(*              iteration of the same store                                *)
(*   SpecRerun  two scheduled runs of a store over the same SoT answers    *)
(*   SpecVenue  two WoltAdapter instances of one venue, each with its own  *)
(*              queue and limiter                                          *)
(*   SpecShutdown  the scheduler process under SIGINT / SIGTERM            *)
(*   SpecHybrid HybridSyncOrchestrator.initialize, call after call         *)
(***************************************************************************)
EXTENDS Integers, Sequences, FiniteSets, TLC

VARIABLES
    \* ---- the store's files (StateManager) ----
    stateFile,      \* state/.state-store-<id>.json
    backupFile,     \* state/.state-store-<id>.json.bak
    loadResult,     \* what the last loadState call returned / did
    tempFile,       \* state/.state-store-<id>.json.tmp
    saveLog,        \* history: the last saveState call and how it went
    \* ---- SyncEngine.runWithOptions ----
    pc,             \* position of the run
    options,        \* SyncOptions of the run in progress
    previousState,  \* the run's previousState object (mutated by updateSyncedState)
    newState,       \* the run's newState object
    itemUpdates,    \* phase-1 array, after the limit
    inventoryUpdates, \* phase-2 array, after the limit
    batchIndex,     \* loop variable i of the phase in progress
    requests,       \* history: marketplace requests issued by the run, in order
    runInfo,        \* history: what the run loaded, fetched and derived
    delivery,       \* the adapter call in flight: attempts made, batches acknowledged
    result,         \* outcome of the run
    \* ---- AdaptiveBatcher + adaptive push ----
    batcher,        \* AdaptiveBatchConfig of the venue
    push,           \* the adaptive push loop in progress
    batchLog,       \* history: the last batcher call and the current success run
    \* ---- WoltRateLimiter + retry ----
    limiter,        \* in-memory fields of the venue's limiter
    limiterFile,    \* the venue's entry of state/rate-limits.json
    clock,          \* Date.now(), in seconds
    call,           \* the marketplace call in progress (withRetry loop)
    venueLog,       \* history: 429 deadlines and request times of the venue
    \* ---- scheduler process (index.ts) ----
    stores,         \* the configured stores and their enabled flags
    storeId,        \* STORE_ID: the store of a single-store process, 0 for none
    isSyncing,      \* the sweep-in-progress flag
    lastSyncStatus, \* outcome recorded by the last sweep
    invocations,    \* runSingleStoreSync / runAllSyncs calls that have not returned
    schedLog,       \* history: the last refusal and the last finished sweep
    \* ---- CircuitBreaker, withRetry ----
    breaker,        \* the fields of one CircuitBreaker
    breakerLog,     \* history: the breaker's calls and what became of them
    retry,          \* the withRetry call in progress and its history
    \* ---- PriorityScorer ----
    scored,         \* the scorer's last call: what it was given and returned
    \* ---- BackgroundWorker ----
    worker,         \* the syncNextBatch call in progress and what it has done
    \* ---- the WoltAdapter instances of one process ----
    adapters,       \* per component: its limiter of the venue, its call
    wire,           \* history: the requests the venue has been sent
    \* ---- signals, HybridSyncOrchestrator ----
    proc,           \* the process: signalled, its server's connections, exited
    hybrid,         \* the orchestrator's initialize call and its history
    rerun           \* history: the SoT's answers to a run, for the run after it

syncVars  == <<pc, options, previousState, newState, itemUpdates,
               inventoryUpdates, batchIndex, requests, runInfo, delivery, result>>
fileVars  == <<stateFile, backupFile, loadResult>>
batchVars == <<batcher, push, batchLog>>
rateVars  == <<limiter, limiterFile, clock, call, venueLog>>
schedVars == <<stores, storeId, isSyncing, lastSyncStatus, invocations,
               schedLog>>
otherVars == <<scored, worker, adapters, wire, proc, hybrid, rerun>>
notScored == <<worker, adapters, wire, proc, hybrid, rerun>>
notWorker == <<scored, adapters, wire, proc, hybrid, rerun>>
notAdapters == <<scored, worker, proc, hybrid, rerun>>
notProc   == <<scored, worker, adapters, wire, hybrid, rerun>>
notHybrid == <<scored, worker, adapters, wire, proc, rerun>>
notRerun  == <<breaker, breakerLog, retry, scored, worker, adapters, wire, proc,
               hybrid>>
callVars  == <<breaker, breakerLog, retry, otherVars>>
coreVars  == <<fileVars, tempFile, saveLog, syncVars, batchVars, rateVars,
               schedVars, breaker, breakerLog, retry>>
vars      == <<fileVars, tempFile, saveLog, syncVars, batchVars, rateVars,
               schedVars, callVars>>

(***************************************************************************)
(* Bounds of the model.                                                    *)
(***************************************************************************)
MaxLimit == 1           \* --limit ranges over 1..MaxLimit (0: no limit)
MaxMembers == 1         \* members of a state document found on disk

ProductIds  == {1, 2}               \* SoT product ids
Skus        == {"A", "B"}           \* marketplace SKUs
SkuFields   == {""} \cup Skus       \* value of a detail's SKU field ("": none)
Rests       == {0, 1}               \* SoT "rest" of one product

Min(a, b) == IF a < b THEN a ELSE b
Max(a, b) == IF a > b THEN a ELSE b

(***************************************************************************)
(* Values.  A JavaScript value that came from, or goes to, JSON is a       *)
(* tagged record; a key that is absent from an object reads as undefined   *)
(* ("missing").  The price of a product or of a state entry is such a      *)
(* value: the code never converts it.                                      *)
(***************************************************************************)
JNum(n)  == [t |-> "num", v |-> n]
JBool(b) == [t |-> "bool", v |-> IF b THEN 1 ELSE 0]
JNull    == [t |-> "null", v |-> 0]
JStr     == [t |-> "str", v |-> 1]
JMissing == [t |-> "missing", v |-> 0]

\* SyncState[sku]: one entry of a state map.  lastSeen (a timestamp) is not
\* modelled in memory; the file holds a number for it.
Entry(sku, quantity, enabled, price, synced) ==
    [sku |-> sku, quantity |-> quantity, enabled |-> enabled,
     price |-> price, synced |-> synced]

\* A state map is a sequence of entries with distinct skus: the insertion
\* order of the object's keys, which Object.entries follows.
Has(m, sku) == \E i \in DOMAIN m : m[i].sku = sku
Get(m, sku) == m[CHOOSE i \in DOMAIN m : m[i].sku = sku]
Put(m, e) ==
    IF Has(m, e.sku)
    THEN [i \in DOMAIN m |-> IF m[i].sku = e.sku THEN e ELSE m[i]]
    ELSE Append(m, e)

(***************************************************************************)
(* JSON documents of the state file.                                       *)
(***************************************************************************)

\* A file: absent, unparseable text, or a JSON document that is an object
\* (doc: its members in order), an array or a scalar.
AbsentFile   == [kind |-> "absent", doc |-> <<>>]
GarbageFile  == [kind |-> "garbage", doc |-> <<>>]
ArrayFile    == [kind |-> "array", doc |-> <<>>]
ObjectFile(doc) == [kind |-> "object", doc |-> doc]

\* One member of the top-level object: key sku, value an object with the
\* four fields (isObject) or something else.
Member(sku, isObject, quantity, enabled, price, lastSeen, syncedToWolt) ==
    [sku |-> sku, isObject |-> isObject, quantity |-> quantity,
     enabled |-> enabled, price |-> price, lastSeen |-> lastSeen,
     syncedToWolt |-> syncedToWolt]

\* JSON.stringify with an undefined price written as null
ToJsonNullPrice(m) ==
    ObjectFile([i \in DOMAIN m |->
        Member(m[i].sku, TRUE, JNum(m[i].quantity), JBool(m[i].enabled),
               IF m[i].price.t = "missing" THEN JNull ELSE m[i].price,
               JNum(0),
               IF m[i].synced THEN JBool(TRUE) ELSE JMissing)])

\* JSON.stringify of a state map (fs.writeJson / JSON.stringify): undefined
\* members are dropped, numbers and booleans are written as they are.
ToJson(m) ==
    ObjectFile([i \in DOMAIN m |->
        Member(m[i].sku, TRUE, JNum(m[i].quantity), JBool(m[i].enabled),
               m[i].price,
               JNum(0),
               IF m[i].synced THEN JBool(TRUE) ELSE JMissing)])

\* JavaScript truthiness of a JSON value (stateEntry.syncedToWolt).
Truthy(j) == (j.t \in {"bool", "num", "str"}) /\ j.v # 0

\* The in-memory view of a parsed, valid document.
FromJson(file) ==
    [i \in DOMAIN file.doc |->
        LET mem == file.doc[i] IN
        Entry(mem.sku, mem.quantity.v, mem.enabled.v = 1,
              mem.price,
              Truthy(mem.syncedToWolt))]

(***************************************************************************)
(* StateManager (src/src/core/state.ts)                                    *)
(***************************************************************************)
\* isValidState: an object whose every key is non-blank and every value an
\* object with finite quantity, boolean enabled and, if present, finite
\* price and lastSeen.
IsValidState(file) ==
    /\ file.kind = "object"
    /\ \A i \in DOMAIN file.doc :
        LET mem == file.doc[i] IN
        /\ mem.sku # ""
        /\ mem.isObject
        /\ mem.quantity.t = "num"
        /\ mem.enabled.t = "bool"
        /\ mem.price.t \in {"missing", "num"}
        /\ mem.lastSeen.t \in {"missing", "num"}

\* readStateFile: null (ok = FALSE) when fs.readJson throws or the document
\* fails isValidState, the data otherwise.
ReadStateFile(file) ==
    IF file.kind \in {"absent", "garbage"} \/ ~IsValidState(file)
    THEN [ok |-> FALSE, data |-> <<>>]
    ELSE [ok |-> TRUE, data |-> FromJson(file)]

\* loadState: the map it returns, where the map came from, and whether the
\* backup file was read.  It has no path that throws: fs.pathExists
\* resolves to false on an error, and readStateFile catches.
LoadResult(state, from, readBackup) ==
    [state |-> state, from |-> from, readBackup |-> readBackup]

NotLoaded == LoadResult(<<>>, "none", FALSE)

LoadStateBackupFirst(primary, backup) ==
    IF ReadStateFile(backup).ok
    THEN LoadResult(ReadStateFile(backup).data, "backup", TRUE)
    ELSE LoadResult(ReadStateFile(primary).data, "primary", TRUE)

\* loadState that turns to the backup when there is no primary
LoadStateBackupIfAbsent(primary, backup) ==
    IF ReadStateFile(primary).ok
    THEN LoadResult(ReadStateFile(primary).data, "primary", FALSE)
    ELSE IF ReadStateFile(backup).ok
         THEN LoadResult(ReadStateFile(backup).data, "backup", TRUE)
         ELSE LoadResult(<<>>, "empty", backup.kind # "absent")

LoadState(primary, backup) ==
    IF primary.kind # "absent"                      \* fs.pathExists(filePath)
    THEN IF ReadStateFile(primary).ok
         THEN LoadResult(ReadStateFile(primary).data, "primary", FALSE)
         ELSE IF backup.kind # "absent"             \* fs.pathExists(backupPath)
              THEN IF ReadStateFile(backup).ok
                   THEN LoadResult(ReadStateFile(backup).data, "backup", TRUE)
                   ELSE LoadResult(<<>>, "empty", TRUE)
              ELSE LoadResult(<<>>, "empty", FALSE)
    ELSE LoadResult(<<>>, "empty", FALSE)

\* ---- the files a store may find on disk ----
\* The key of the member at position i of a document.
KeyAt(i) == IF i = 1 THEN "A" ELSE IF i = 2 THEN "B" ELSE "C"

\* Values a member may hold under key sku: entries as saveState writes
\* them, and entries that fail isValidState one way each.
MembersAt(sku) ==
    { Member(sku, TRUE, JNum(3), JBool(TRUE), JNum(5), JNum(0), JMissing),
      Member(sku, TRUE, JNum(0), JBool(FALSE), JMissing, JMissing, JBool(TRUE)),
      Member("", TRUE, JNum(3), JBool(TRUE), JNum(5), JNum(0), JMissing),
      Member(sku, FALSE, JMissing, JMissing, JMissing, JMissing, JMissing),
      Member(sku, TRUE, JNull, JBool(TRUE), JNum(5), JNum(0), JMissing),
      Member(sku, TRUE, JMissing, JBool(TRUE), JNum(5), JNum(0), JMissing),
      Member(sku, TRUE, JNum(3), JNum(1), JNum(5), JNum(0), JMissing),
      Member(sku, TRUE, JNum(3), JBool(TRUE), JNull, JNum(0), JMissing),
      Member(sku, TRUE, JNum(3), JBool(TRUE), JStr, JNum(0), JMissing),
      Member(sku, TRUE, JNum(3), JBool(TRUE), JNum(5), JNull, JMissing) }

Documents ==
    UNION {{doc \in [1..n -> UNION {MembersAt(KeyAt(i)) : i \in 1..n}] :
                \A i \in 1..n : doc[i] \in MembersAt(KeyAt(i))} :
           n \in 0..MaxMembers}

Files ==
    {AbsentFile, GarbageFile, ArrayFile} \cup {ObjectFile(doc) : doc \in Documents}

InitAnyFiles ==
    /\ stateFile \in Files
    /\ backupFile \in Files
    /\ loadResult = NotLoaded

\* this.stateManager.loadState(store.id)
LoadStateCall ==
    /\ loadResult' = LoadState(stateFile, backupFile)
    /\ UNCHANGED <<stateFile, backupFile, syncVars, batchVars, rateVars,
                   tempFile, saveLog, schedVars, callVars>>

\* A file is replaced from outside (an operator, a restore, a crash in
\* the middle of a write); what was loaded before says nothing of it.
PrimaryReplaced ==
    /\ stateFile' \in Files
    /\ loadResult' = NotLoaded
    /\ UNCHANGED <<backupFile, syncVars, batchVars, rateVars,
                   tempFile, saveLog, schedVars, callVars>>

BackupReplaced ==
    /\ backupFile' \in Files
    /\ loadResult' = NotLoaded
    /\ UNCHANGED <<stateFile, syncVars, batchVars, rateVars,
                   tempFile, saveLog, schedVars, callVars>>

NextState ==
    \/ LoadStateCall
    \/ PrimaryReplaced
    \/ BackupReplaced

(***************************************************************************)
(* StateManager.saveState and commitTempFile.  Every file operation of the *)
(* call either succeeds ("ok"), fails leaving its destination as it was    *)
(* ("fail"), or fails after it has begun to overwrite its destination,     *)
(* which is then unreadable ("partial").  A rename has no partial outcome; *)
(* it fails with a transient code (EPERM, EBUSY, ...: retried, then the    *)
(* copy fallback) or with another one ("fatal").                           *)
(***************************************************************************)
\* What goes wrong during one call: the outcome of each file operation.
\* In the default mode, the combinations in which every failure is one of an
\* operation the call reaches.
AtomicFaultCases ==
    {f \in [backupCopy : {"ok", "fail"},
            writeTemp : {"ok", "fail", "partial"},
            move : {"ok", "transient", "fatal"},
            copy : {"ok", "fail", "partial"},
            removeTemp : {"ok", "fail"},
            directWrite : {"ok"},
            cleanup : {"ok", "fail"}] :
        /\ f.writeTemp # "ok" => f.move = "ok"
        /\ f.move # "transient" => f.copy = "ok"
        /\ f.copy # "ok" => f.removeTemp = "ok"
        /\ f.move # "transient" => f.removeTemp = "ok"}

\* The same with STATE_WRITE_MODE=direct.
DirectFaultCases ==
    {f \in [backupCopy : {"ok", "fail"},
            writeTemp : {"ok", "fail", "partial"},
            move : {"ok"},
            copy : {"ok", "fail", "partial"},
            removeTemp : {"ok"},
            directWrite : {"ok", "fail", "partial"},
            cleanup : {"ok", "fail"}] :
        /\ f.writeTemp # "ok" => f.copy = "ok"
        /\ f.copy = "ok" => f.directWrite = "ok"}

\* A destination after an operation that writes content over it.
Written(outcome, before, content) ==
    IF outcome = "ok" THEN content
    ELSE IF outcome = "partial" THEN GarbageFile
    ELSE before

\* if (await fs.pathExists(tempPath)) await fs.remove(tempPath), errors ignored
CleanUp(temp, f) ==
    IF temp.kind = "absent" \/ f.cleanup = "ok" THEN AbsentFile ELSE temp

\* What a saveState call leaves: the three files, whether it logged a
\* failure (its catch block ran) and whether it threw.
SaveResult(primary, backup, temp, failed, thrown) ==
    [primary |-> primary, backup |-> backup, temp |-> temp,
     failed |-> failed, thrown |-> thrown]

\* commitTempFile: fs.move, retried on a transient error, then fs.copy and
\* fs.remove; the primary and the temporary it leaves, and whether it threw.
CommitTempFile(primary, temp, f) ==
    IF f.move = "ok" THEN [primary |-> temp, temp |-> AbsentFile, threw |-> FALSE]
    ELSE IF f.move = "fatal" THEN [primary |-> primary, temp |-> temp, threw |-> TRUE]
    ELSE IF f.copy # "ok"
         THEN [primary |-> Written(f.copy, primary, temp), temp |-> temp,
               threw |-> TRUE]
         ELSE IF f.removeTemp = "ok"
              THEN [primary |-> temp, temp |-> AbsentFile, threw |-> FALSE]
              ELSE [primary |-> temp, temp |-> temp, threw |-> TRUE]

\* saveState, STATE_WRITE_MODE=direct: writeFile(temp), copy to the primary
\* with a direct writeFile as fallback, the temporary removed in finally.
SaveStateDirect(primary, backup, temp, state, f) ==
    LET written == Written(f.writeTemp, temp, ToJson(state)) IN
    IF f.writeTemp # "ok"
    THEN SaveResult(primary, backup, CleanUp(written, f), TRUE, FALSE)
    ELSE IF f.copy = "ok"
         THEN SaveResult(written, backup, CleanUp(written, f), FALSE, FALSE)
         ELSE LET copied == Written(f.copy, primary, written) IN
              SaveResult(Written(f.directWrite, copied, written), backup,
                         CleanUp(written, f), f.directWrite # "ok", FALSE)

\* saveState, default mode: writeJson(temp), commitTempFile; the catch block
\* logs and removes the temporary.
SaveStateAtomic(primary, backup, temp, state, f) ==
    LET written == Written(f.writeTemp, temp, ToJson(state)) IN
    IF f.writeTemp # "ok"
    THEN SaveResult(primary, backup, CleanUp(written, f), TRUE, FALSE)
    ELSE LET commit == CommitTempFile(primary, written, f) IN
         IF commit.threw
         THEN SaveResult(commit.primary, backup, CleanUp(commit.temp, f),
                         TRUE, FALSE)
         ELSE SaveResult(commit.primary, backup, commit.temp, FALSE, FALSE)

\* saveState: the primary, if there is one, is first copied to the backup
\* (a failure of that copy is logged and ignored).
SaveState(primary, backup, temp, state, direct, f) ==
    LET bak == IF primary.kind # "absent"
               THEN Written(f.backupCopy, backup, primary) ELSE backup
    IN IF direct THEN SaveStateDirect(primary, bak, temp, state, f)
       ELSE SaveStateAtomic(primary, bak, temp, state, f)

\* State maps handed to saveState: entries with a price and without.
StateMaps ==
    LET EntriesOf(sku) == { Entry(sku, 3, TRUE, JNum(5), FALSE),
                            Entry(sku, 0, FALSE, JMissing, TRUE) }
    IN UNION {{m \in [1..n -> UNION {EntriesOf(KeyAt(i)) : i \in 1..n}] :
                   \A i \in 1..n : m[i] \in EntriesOf(KeyAt(i))} :
              n \in 0..MaxMembers}

\* saveLog is the history of the last saveState call: the map it was given,
\* whether every file operation succeeded, the primary it found and how it
\* ended.
InitSave ==
    /\ tempFile = AbsentFile
    /\ saveLog = [called |-> FALSE, state |-> <<>>, clean |-> TRUE,
                  primaryBefore |-> AbsentFile, failed |-> FALSE,
                  thrown |-> FALSE]

\* this.stateManager.saveState(store.id, state)
SaveStateCall ==
    /\ \E state \in StateMaps, direct \in BOOLEAN :
       \E f \in (IF direct THEN DirectFaultCases ELSE AtomicFaultCases) :
        LET saved == SaveState(stateFile, backupFile, tempFile, state, direct, f) IN
        /\ stateFile' = saved.primary
        /\ backupFile' = saved.backup
        /\ tempFile' = saved.temp
        /\ saveLog' = [called |-> TRUE, state |-> state,
                       clean |-> \A op \in DOMAIN f : f[op] = "ok",
                       primaryBefore |-> stateFile, failed |-> saved.failed,
                       thrown |-> saved.thrown]
    /\ loadResult' = NotLoaded
    /\ UNCHANGED <<syncVars, batchVars, rateVars, schedVars, callVars>>

\* loadState after a saveState
LoadSavedState ==
    /\ saveLog.called
    /\ loadResult' = LoadState(stateFile, backupFile)
    /\ UNCHANGED <<stateFile, backupFile, tempFile, saveLog, syncVars, batchVars,
                   rateVars, schedVars, callVars>>

NextSave ==
    \/ SaveStateCall
    \/ LoadSavedState

(***************************************************************************)
(* SoT data of one run (FinaAdapter).  getInventory returns the products   *)
(* 1..n with their rest; getProductDetails returns the details of the     *)
(* first d of them, d < n being a short response.                          *)
(***************************************************************************)
SotPrices == {JMissing, JNum(5), JNum(7)}   \* price of a detail; one is no number

InventoryItem(id, rest) == [id |-> id, rest |-> rest]
Detail(id, price, skuField) == [id |-> id, price |-> price, skuField |-> skuField]

Inventories ==
    UNION {{[i \in 1..n |-> InventoryItem(i, rests[i])] :
                rests \in [1..n -> Rests]} : n \in 0..Cardinality(ProductIds)}

DetailsOf(inventory) ==
    UNION {{[i \in 1..d |-> Detail(inventory[i].id, prices[i], fields[i])] :
                prices \in [1..d -> SotPrices], fields \in [1..d -> SkuFields]} :
           d \in 0..Len(inventory)}

\* FinaAdapter.mapToWoltSku: the SKU of a product id, "" when no detail of
\* that id carries a non-empty SKU field.
MapToWoltSku(details, id) ==
    IF \E i \in DOMAIN details : details[i].id = id /\ details[i].skuField # ""
    THEN LET last == CHOOSE i \in DOMAIN details :
                        /\ details[i].id = id /\ details[i].skuField # ""
                        /\ \A j \in DOMAIN details :
                              (details[j].id = id /\ details[j].skuField # "")
                                  => j <= i
         IN details[last].skuField
    ELSE ""

(***************************************************************************)
(* SyncEngine.runWithOptions (src/core/sync.ts)                            *)
(***************************************************************************)
DefaultBatchSize          == 50     \* WOLT_BATCH_SIZE default
DefaultFirstSyncBatchSize == 1      \* WOLT_FIRST_SYNC_BATCH_SIZE default

\* SyncOptions as the callers pass them: bootstrapState alone, or any mix of
\* dryRun, forceFullSync and limit (0: no limit given).
Options(dryRun, limit, forceFullSync, bootstrapState) ==
    [dryRun |-> dryRun, limit |-> limit, forceFullSync |-> forceFullSync,
     bootstrapState |-> bootstrapState]

NoOptions == Options(FALSE, 0, FALSE, FALSE)

RunOptions ==
    {Options(FALSE, 0, FALSE, TRUE)} \cup
    {Options(d, l, f, FALSE) : d \in BOOLEAN, l \in 0..MaxLimit, f \in BOOLEAN}

\* inventoryResult.items.length === 0
InventoryIsEmptyNever(inventory) == FALSE

InventoryIsEmpty(inventory) == Len(inventory) = 0

\* details.length < productIds.length
DetailsAreShortNever(details, inventory) == FALSE

DetailsAreShort(details, inventory) == Len(details) < Len(inventory)

\* isFirstSync, and forceFullSync after the upgrade of a first sync
IsFirstSync(loaded) == Len(loaded) = 0

ForceFullSync(loaded, opts) ==
    opts.forceFullSync \/ (IsFirstSync(loaded) /\ ~opts.bootstrapState)

\* stockMap.get(product.id) || 0
StockOf(inventory, id) ==
    IF \E i \in DOMAIN inventory : inventory[i].id = id
    THEN LET last == CHOOSE i \in DOMAIN inventory :
                        /\ inventory[i].id = id
                        /\ \A j \in DOMAIN inventory :
                              inventory[j].id = id => j <= i
         IN inventory[last].rest
    ELSE 0

\* woltData after the first k details: quantity summed per SKU, last price
\* wins, enabled = quantity > 0.
RECURSIVE WoltData(_, _, _)
WoltData(details, inventory, k) ==
    IF k = 0 THEN <<>>
    ELSE LET acc      == WoltData(details, inventory, k - 1)
             product  == details[k]
             woltSku  == MapToWoltSku(details, product.id)
             quantity == StockOf(inventory, product.id)
         IN IF woltSku = "" THEN acc
            ELSE IF ~Has(acc, woltSku)
                 THEN Append(acc, Entry(woltSku, quantity, quantity > 0,
                                        product.price, FALSE))
                 ELSE LET existing == Get(acc, woltSku)
                          total    == existing.quantity + quantity
                      IN Put(acc, Entry(woltSku, total, total > 0,
                                        product.price, FALSE))

\* The marketplace payload entries.
ItemUpdate(sku, enabled, price) == [sku |-> sku, enabled |-> enabled, price |-> price]
InventoryUpdate(sku, inventory) == [sku |-> sku, inventory |-> inventory]

\* Does the loop over woltData push an inventory / an item update for data?
PushesInventory(previous, data, forceFull, bootstrap) ==
    IF forceFull /\ ~bootstrap THEN TRUE
    ELSE IF ~Has(previous, data.sku) THEN ~bootstrap
    ELSE Get(previous, data.sku).quantity # data.quantity

\* an item update decided on enabled alone
PushesItemIgnoringPrice(previous, data, forceFull, bootstrap) ==
    IF forceFull /\ ~bootstrap THEN TRUE
    ELSE IF ~Has(previous, data.sku) THEN ~bootstrap
    ELSE Get(previous, data.sku).enabled # data.enabled

PushesItem(previous, data, forceFull, bootstrap) ==
    IF forceFull /\ ~bootstrap THEN TRUE
    ELSE IF ~Has(previous, data.sku) THEN ~bootstrap
    ELSE \/ Get(previous, data.sku).enabled # data.enabled
         \/ Get(previous, data.sku).price # data.price

\* no entry of the previous state counts as missing
MissingItemsNone(previous, woltData) == <<>>

\* Entries of the previous state whose SKU is not in woltData, in order.
MissingItems(previous, woltData) ==
    SelectSeq(previous, LAMBDA prev : ~Has(woltData, prev.sku))

\* newState[sku] of a missing item
MissingEntryKeepsQuantity(prev) ==
    Entry(prev.sku, prev.quantity, prev.enabled, prev.price, FALSE)

MissingEntry(prev) == Entry(prev.sku, 0, FALSE, prev.price, FALSE)

NewState(previous, woltData) ==
    LET missing == MissingItems(previous, woltData)
    IN woltData \o [i \in DOMAIN missing |-> MissingEntry(missing[i])]

AllItemUpdates(previous, woltData, forceFull, bootstrap) ==
    LET changed == SelectSeq(woltData,
                     LAMBDA data : PushesItem(previous, data, forceFull, bootstrap))
        missing == IF bootstrap THEN <<>> ELSE MissingItems(previous, woltData)
    IN [i \in DOMAIN changed |->
            ItemUpdate(changed[i].sku, changed[i].enabled, changed[i].price)]
       \o [i \in DOMAIN missing |-> ItemUpdate(missing[i].sku, FALSE, JMissing)]

AllInventoryUpdates(previous, woltData, forceFull, bootstrap) ==
    LET changed == SelectSeq(woltData,
                     LAMBDA data : PushesInventory(previous, data, forceFull, bootstrap))
        missing == IF bootstrap THEN <<>> ELSE MissingItems(previous, woltData)
    IN [i \in DOMAIN changed |-> InventoryUpdate(changed[i].sku, changed[i].quantity)]
       \o [i \in DOMAIN missing |-> InventoryUpdate(missing[i].sku, 0)]

\* the arrays left as they are
ApplyLimitNever(updates, limit) == updates

\* Apply Limit: each array is cut to its first limit entries on its own.
ApplyLimit(updates, limit) ==
    IF limit > 0 /\ Len(updates) > limit THEN SubSeq(updates, 1, limit) ELSE updates

\* resolveBatchConfig(store.id, isFirstSync || forceFullSync).batchSize
EffectiveBatchSize(loaded, opts) ==
    IF IsFirstSync(loaded) \/ ForceFullSync(loaded, opts)
    THEN DefaultFirstSyncBatchSize ELSE DefaultBatchSize

\* updates.slice(i, i + effectiveBatchSize)
BatchAt(updates, i, size) == SubSeq(updates, i + 1, Min(i + size, Len(updates)))

\* previousState replaced by the whole of newState
MarkSyncedAll(previous, new, batch) == new

\* updateSyncedState's loop: previousState[sku] = {...newState[sku]}
RECURSIVE MarkSynced(_, _, _)
MarkSynced(previous, new, batch) ==
    IF batch = <<>> THEN previous
    ELSE LET sku  == Head(batch).sku
             next == IF Has(new, sku) THEN Put(previous, Get(new, sku))
                     ELSE previous
         IN MarkSynced(next, new, Tail(batch))

\* History of a run: what it read, what the SoT answered, what it derived
\* and how many times it called saveState.
RunInfo(loaded, fileBefore, sotEmpty, sotShort, viewBuilt, view, writes) ==
    [loaded |-> loaded, fileBefore |-> fileBefore, sotEmpty |-> sotEmpty,
     sotShort |-> sotShort, viewBuilt |-> viewBuilt, view |-> view,
     writes |-> writes]

NoRunInfo == RunInfo(<<>>, AbsentFile, FALSE, FALSE, FALSE, <<>>, 0)

\* Outcome of a run: the status given to metricsCollector.endSync, the
\* side the error was recorded against, and whether the run threw.
Result(status, source, thrown) ==
    [status |-> status, source |-> source, thrown |-> thrown]

NoResult == Result("none", "none", FALSE)

Request(api, data) == [api |-> api, data |-> data]

\* The updateItems / updateInventory call of the batch at batchIndex: the
\* attempts withWoltApiRetry has made that were answered 429, the number
\* of batches of the run whose call has resolved, and the status of the
\* marketplace's last answer (0: none yet).
Delivery(attempt, acked, status) ==
    [attempt |-> attempt, acked |-> acked, status |-> status]


InitFiles ==
    /\ stateFile = AbsentFile
    /\ backupFile = AbsentFile
    /\ loadResult = NotLoaded

InitSync ==
    /\ pc = "idle"
    /\ options = NoOptions
    /\ previousState = <<>>
    /\ newState = <<>>
    /\ itemUpdates = <<>>
    /\ inventoryUpdates = <<>>
    /\ batchIndex = 0
    /\ requests = <<>>
    /\ runInfo = NoRunInfo
    /\ delivery = Delivery(0, 0, 0)
    /\ result = NoResult

\* The run ends: nothing of it outlives the call but the files.
EndRun(res, info) ==
    /\ pc' = "done"
    /\ result' = res
    /\ runInfo' = info

\* if (!store.enabled) { endSync('success'); return; }
RunDisabledStore ==
    /\ pc = "idle"
    /\ \E opts \in RunOptions :
        /\ options' = opts
        /\ EndRun(Result("success", "none", FALSE), NoRunInfo)
    /\ UNCHANGED <<previousState, newState, itemUpdates, inventoryUpdates,
                   batchIndex, requests, delivery, fileVars, batchVars, rateVars,
                   tempFile, saveLog, schedVars, callVars>>

\* loadState, getInventory: no inventory, the run is recorded as an error
\* of the SoT and returns.
RunEmptyInventory ==
    /\ pc = "idle"
    /\ \E opts \in RunOptions, inventory \in Inventories :
        LET loaded == LoadState(stateFile, backupFile) IN
        /\ InventoryIsEmpty(inventory)
        /\ options' = opts
        /\ previousState' = loaded.state
        /\ loadResult' = loaded
        /\ EndRun(Result("error", "fina", FALSE),
                  RunInfo(loaded.state, stateFile, Len(inventory) = 0, FALSE,
                          FALSE, <<>>, 0))
    /\ UNCHANGED <<newState, itemUpdates, inventoryUpdates, batchIndex,
                   requests, delivery, stateFile, backupFile, batchVars, rateVars,
                   tempFile, saveLog, schedVars, callVars>>

\* loadState, getInventory, getProductDetails: fewer details than ids, the
\* run throws an error marked isFinaError.
RunShortDetails ==
    /\ pc = "idle"
    /\ \E opts \in RunOptions, inventory \in Inventories :
       \E details \in DetailsOf(inventory) :
        LET loaded == LoadState(stateFile, backupFile) IN
        /\ ~InventoryIsEmpty(inventory)
        /\ DetailsAreShort(details, inventory)
        /\ options' = opts
        /\ previousState' = loaded.state
        /\ loadResult' = loaded
        /\ EndRun(Result("error", "fina", TRUE),
                  RunInfo(loaded.state, stateFile, Len(inventory) = 0,
                          Len(details) < Len(inventory), FALSE, <<>>, 0))
    /\ UNCHANGED <<newState, itemUpdates, inventoryUpdates, batchIndex,
                   requests, delivery, stateFile, backupFile, batchVars, rateVars,
                   tempFile, saveLog, schedVars, callVars>>

\* a save that leaves the file as it was
SaveFromRunSkipped(state) == stateFile' = stateFile

\* saveState as the run sees it: the primary file holds the document.  The
\* copy to the backup file is left to SpecState; every primary this run
\* writes is readable, and loadState reads the backup of no readable primary.
SaveFromRun(state) == stateFile' = ToJson(state)

\* Bootstrap: the new state is computed and saved, nothing is sent.
RunBootstrap ==
    /\ pc = "idle"
    /\ \E opts \in RunOptions, inventory \in Inventories :
       \E details \in DetailsOf(inventory) :
        LET loaded   == LoadState(stateFile, backupFile)
            woltData == WoltData(details, inventory, Len(details))
            new      == NewState(loaded.state, woltData)
        IN
        /\ ~InventoryIsEmpty(inventory)
        /\ ~DetailsAreShort(details, inventory)
        /\ opts.bootstrapState
        /\ options' = opts
        /\ previousState' = loaded.state
        /\ loadResult' = loaded
        /\ newState' = new
        /\ IF opts.dryRun THEN UNCHANGED stateFile ELSE SaveFromRun(new)
        /\ EndRun(Result("success", "none", FALSE),
                  RunInfo(loaded.state, stateFile, Len(inventory) = 0,
                          Len(details) < Len(inventory), TRUE, woltData,
                          IF opts.dryRun THEN 0 ELSE 1))
    /\ UNCHANGED <<itemUpdates, inventoryUpdates, batchIndex, requests, delivery,
                   backupFile, batchVars, rateVars,
                   tempFile, saveLog, schedVars, callVars>>

\* HybridSyncOrchestrator.bootstrapState: the state after the first k
\* details; state[woltSku] is assigned per product, so the last product of
\* a SKU gives its quantity.
RECURSIVE HybridState(_, _, _)
HybridState(details, inventory, k) ==
    IF k = 0 THEN <<>>
    ELSE LET acc      == HybridState(details, inventory, k - 1)
             product  == details[k]
             woltSku  == MapToWoltSku(details, product.id)
             quantity == StockOf(inventory, product.id)
         IN IF woltSku = "" THEN acc
            ELSE Put(acc, Entry(woltSku, quantity, quantity > 0,
                                product.price, FALSE))

\* HybridSyncOrchestrator.initialize up to the end of its bootstrap phase:
\* a store with no state gets one from the SoT, nothing is sent.  runInfo
\* notes what was loaded and the write.
HybridBootstrap ==
    /\ pc = "idle"
    /\ \E inventory \in Inventories :
       \E details \in DetailsOf(inventory) :
        LET loaded == LoadState(stateFile, backupFile)
            state  == HybridState(details, inventory, Len(details))
        IN
        /\ Len(loaded.state) = 0
        /\ loadResult' = loaded
        /\ newState' = state
        /\ SaveFromRun(state)
        /\ pc' = "bootstrapped"
        /\ runInfo' = RunInfo(loaded.state, stateFile, FALSE, FALSE, FALSE, <<>>, 1)
    /\ UNCHANGED <<options, previousState, itemUpdates, inventoryUpdates,
                   batchIndex, requests, delivery, result, backupFile,
                   batchVars, rateVars, tempFile, saveLog, schedVars, callVars>>

\* Steps 1-5 and the limit: the run has its two arrays and enters phase 1.
SotAnswers ==
    UNION { { [inventory |-> inventory, details |-> details] :
                details \in DetailsOf(inventory) } : inventory \in Inventories }

RunStartWith(optionSet, answers) ==
    /\ pc = "idle"
    /\ \E opts \in optionSet, answer \in answers :
        LET inventory == answer.inventory
            details   == answer.details
            loaded    == LoadState(stateFile, backupFile)
            forceFull == ForceFullSync(loaded.state, opts)
            woltData  == WoltData(details, inventory, Len(details))
        IN
        /\ ~InventoryIsEmpty(inventory)
        /\ ~DetailsAreShort(details, inventory)
        /\ ~opts.bootstrapState
        /\ options' = opts
        /\ previousState' = loaded.state
        /\ loadResult' = loaded
        /\ newState' = NewState(loaded.state, woltData)
        /\ itemUpdates' =
              ApplyLimit(AllItemUpdates(loaded.state, woltData, forceFull, FALSE),
                         opts.limit)
        /\ inventoryUpdates' =
              ApplyLimit(AllInventoryUpdates(loaded.state, woltData, forceFull, FALSE),
                         opts.limit)
        /\ runInfo' = RunInfo(loaded.state, stateFile, Len(inventory) = 0,
                              Len(details) < Len(inventory), TRUE, woltData, 0)
    /\ pc' = "items"
    /\ batchIndex' = 0
    /\ UNCHANGED <<requests, delivery, result, stateFile, backupFile, batchVars, rateVars,
                   tempFile, saveLog, schedVars>>

RunStart ==
    /\ RunStartWith(RunOptions, SotAnswers)
    /\ UNCHANGED callVars

\* updateSyncedState(batch.map(item => item.sku))
UpdateSyncedState(batch) ==
    IF options.dryRun \/ options.limit # 0
    THEN UNCHANGED <<previousState, stateFile, runInfo>>
    ELSE /\ previousState' = MarkSynced(previousState, newState, batch)
         /\ SaveFromRun(MarkSynced(previousState, newState, batch))
         /\ runInfo' = [runInfo EXCEPT !.writes = @ + 1]

\* The batch the loop of the phase in progress is sending.
BatchInFlight ==
    BatchAt(IF pc = "items" THEN itemUpdates ELSE inventoryUpdates, batchIndex,
            EffectiveBatchSize(runInfo.loaded, options))

\* One iteration of the loop of a phase: updateItems / updateInventory
\* resolves, the marketplace having answered with status; the batch's SKUs
\* are recorded and the loop goes on.
BatchResolves(status) ==
    /\ pc \in {"items", "inventory"} /\ ~options.dryRun
    /\ batchIndex < Len(IF pc = "items" THEN itemUpdates ELSE inventoryUpdates)
    /\ requests' = Append(requests, Request(pc, BatchInFlight))
    /\ delivery' = Delivery(0, delivery.acked + 1, status)
    /\ UpdateSyncedState(BatchInFlight)
    /\ batchIndex' = batchIndex + EffectiveBatchSize(runInfo.loaded, options)
    /\ UNCHANGED <<pc, options, newState, itemUpdates, inventoryUpdates,
                   result, backupFile, loadResult, batchVars, rateVars,
                   tempFile, saveLog, schedVars>>

\* One iteration of the loop of a phase: updateItems / updateInventory
\* rejects, the run throws.
BatchRejects ==
    /\ pc \in {"items", "inventory"} /\ ~options.dryRun
    /\ batchIndex < Len(IF pc = "items" THEN itemUpdates ELSE inventoryUpdates)
    /\ requests' = Append(requests, Request(pc, BatchInFlight))
    /\ EndRun(Result("error", "wolt", TRUE), runInfo)
    /\ UNCHANGED <<options, previousState, newState, itemUpdates,
                   inventoryUpdates, batchIndex, delivery, fileVars, batchVars,
                   rateVars, tempFile, saveLog, schedVars>>

\* One iteration of the phase-1 loop: updateItems resolves.
SendItemsBatch == pc = "items" /\ BatchResolves(200) /\ UNCHANGED callVars

\* One iteration of the phase-1 loop: updateItems rejects, the run throws.
SendItemsBatchFails == pc = "items" /\ BatchRejects /\ UNCHANGED callVars

\* Phase 1 is over (or is skipped: nothing to send, or a dry run).
ItemsPhaseDone ==
    /\ pc = "items" /\ (options.dryRun \/ batchIndex >= Len(itemUpdates))
    /\ pc' = "inventory"
    /\ batchIndex' = 0
    /\ UNCHANGED <<options, previousState, newState, itemUpdates,
                   inventoryUpdates, requests, delivery, runInfo, result, fileVars,
                   batchVars, rateVars,
                   tempFile, saveLog, schedVars, callVars>>

\* One iteration of the phase-2 loop: updateInventory resolves.
SendInventoryBatch == pc = "inventory" /\ BatchResolves(200) /\ UNCHANGED callVars

\* One iteration of the phase-2 loop: updateInventory rejects.
SendInventoryBatchFails == pc = "inventory" /\ BatchRejects /\ UNCHANGED callVars

\* 7. Save Final State, unless the run is dry or limited; endSync('success').
SaveFinalState ==
    /\ pc = "inventory" /\ (options.dryRun \/ batchIndex >= Len(inventoryUpdates))
    /\ IF ~options.dryRun /\ options.limit = 0
       THEN /\ SaveFromRun(newState)
            /\ EndRun(Result("success", "none", FALSE),
                      [runInfo EXCEPT !.writes = @ + 1])
       ELSE /\ UNCHANGED stateFile
            /\ EndRun(Result("success", "none", FALSE), runInfo)
    /\ UNCHANGED <<options, previousState, newState, itemUpdates,
                   inventoryUpdates, batchIndex, requests, delivery, backupFile,
                   loadResult, batchVars, rateVars,
                   tempFile, saveLog, schedVars, callVars>>

\* runWithOptions has returned or thrown; the engine is ready for the next.
RunReturns ==
    /\ pc \in {"done", "bootstrapped"}
    /\ pc' = "idle"
    /\ options' = NoOptions
    /\ previousState' = <<>>
    /\ newState' = <<>>
    /\ itemUpdates' = <<>>
    /\ inventoryUpdates' = <<>>
    /\ batchIndex' = 0
    /\ requests' = <<>>
    /\ runInfo' = NoRunInfo
    /\ delivery' = Delivery(0, 0, 0)
    /\ result' = NoResult
    /\ loadResult' = NotLoaded
    /\ UNCHANGED <<stateFile, backupFile, batchVars, rateVars,
                   tempFile, saveLog, schedVars>>

Finish == RunReturns /\ UNCHANGED callVars

NextSync ==
    \/ RunDisabledStore
    \/ RunEmptyInventory
    \/ RunShortDetails
    \/ RunBootstrap
    \/ HybridBootstrap
    \/ RunStart
    \/ SendItemsBatch
    \/ SendItemsBatchFails
    \/ ItemsPhaseDone
    \/ SendInventoryBatch
    \/ SendInventoryBatchFails
    \/ SaveFinalState
    \/ Finish

MaxRetries == 2     \* 429 answers to one call that the model follows (the
                    \* retry policy allows 7 before it gives up)

\* updateItems / updateInventory is answered 429: withWoltApiRetry sleeps
\* and calls again; the run is still awaiting the adapter.
BatchRateLimited ==
    /\ pc \in {"items", "inventory"} /\ ~options.dryRun
    /\ batchIndex < Len(IF pc = "items" THEN itemUpdates ELSE inventoryUpdates)
    /\ delivery.attempt < MaxRetries
    /\ delivery' = Delivery(delivery.attempt + 1, delivery.acked, 429)
    /\ UNCHANGED <<pc, options, previousState, newState, itemUpdates,
                   inventoryUpdates, batchIndex, requests, runInfo, result,
                   fileVars, tempFile, saveLog, batchVars, rateVars, schedVars,
                   callVars>>

(***************************************************************************)
(* Properties of the SyncEngine run (SpecSync)                             *)
(***************************************************************************)
SkusIn(updates) == {updates[i].sku : i \in DOMAIN updates}

\* The run has sent no request and has left the state file as it found it.
RunTouchedNothing ==
    /\ requests = <<>>
    /\ runInfo.writes = 0
    /\ stateFile = runInfo.fileBefore

\* C1: a run whose SoT inventory is empty issues no marketplace item or
\* inventory request and does not write the state file.
C1_EmptyInventoryTouchesNothing ==
    runInfo.sotEmpty => RunTouchedNothing

\* An empty inventory met a non-empty previous state: a run that went on
\* would have disabled every SKU.
C1_Witness ==
    /\ pc = "done"
    /\ runInfo.sotEmpty
    /\ Len(runInfo.loaded) > 0
    /\ stateFile # AbsentFile

\* C2: a run that receives fewer details than ids issues no marketplace
\* request, does not write the state file, and ends with an error that is
\* attributed to the SoT.
C2_ShortDetailsAbortTheRun ==
    runInfo.sotShort =>
        /\ RunTouchedNothing
        /\ pc = "done"
        /\ result = Result("error", "fina", TRUE)

C2_Witness ==
    /\ pc = "done"
    /\ runInfo.sotShort
    /\ Len(runInfo.loaded) > 0
    /\ result.thrown

\* typeof price === 'number' && price >= 0
HasValidPrice(price) == price.t = "num" /\ price.v >= 0

\* C3: whenever the run emits updates for a SKU whose SoT price is not a
\* valid non-negative number, the item update has enabled = false and
\* price = 0, and the inventory update has inventory = 0.
C3_InvalidPriceIsForcedToZero ==
    \A k \in DOMAIN requests :
        \A i \in DOMAIN requests[k].data :
            LET update == requests[k].data[i] IN
            (Has(runInfo.view, update.sku)
                /\ ~HasValidPrice(Get(runInfo.view, update.sku).price))
            => IF requests[k].api = "items"
               THEN update.enabled = FALSE /\ update.price = JNum(0)
               ELSE update.inventory = 0

\* The state map the file holds, as loadState would return it.
Persisted == ReadStateFile(stateFile).data

\* A run that computed its view ended with success, neither dry nor limited.
CompletedFullRun ==
    /\ pc = "done"
    /\ result.status = "success"
    /\ runInfo.viewBuilt
    /\ ~options.dryRun
    /\ options.limit = 0

ItemUnchanged(sku) ==
    /\ Has(runInfo.loaded, sku)
    /\ Has(newState, sku)
    /\ Get(newState, sku).enabled = Get(runInfo.loaded, sku).enabled
    /\ Get(newState, sku).price = Get(runInfo.loaded, sku).price

\* C5: within one run (delta, force-full or limited) every SKU sent in a
\* phase-2 batch was sent in an earlier phase-1 batch of the same run, or
\* its enabled and price are unchanged against the prior state entry.
C5_InventoryFollowsItems ==
    \A k \in DOMAIN requests :
        requests[k].api = "inventory" =>
            \A sku \in SkusIn(requests[k].data) :
                \/ \E j \in 1..(k - 1) :
                      /\ requests[j].api = "items"
                      /\ sku \in SkusIn(requests[j].data)
                \/ ItemUnchanged(sku)

\* The run has loaded the state and built its SkuView, and is no bootstrap.
PushingRun ==
    /\ pc \in {"items", "inventory", "done"}
    /\ runInfo.viewBuilt
    /\ ~options.bootstrapState

\* One item update and one inventory update per SKU of the view, in order.
ViewAsItemUpdates(view) ==
    [i \in DOMAIN view |-> ItemUpdate(view[i].sku, view[i].enabled, view[i].price)]

ViewAsInventoryUpdates(view) ==
    [i \in DOMAIN view |-> InventoryUpdate(view[i].sku, view[i].quantity)]

\* The SKUs of the requests of one API that the run has issued.
SkusSentTo(api) ==
    UNION {SkusIn(requests[k].data) :
              k \in {j \in DOMAIN requests : requests[j].api = api}}

\* updates holds the entry u.
Holds(updates, u) == \E i \in DOMAIN updates : updates[i] = u

\* The run is a delta run: it pushes, its loaded state has entries and it
\* was not asked for a full push.
DeltaRun ==
    /\ PushingRun
    /\ ~ForceFullSync(runInfo.loaded, options)

\* C14: in a delta run, for a SKU of the SkuView that the previous state
\* holds, an inventory update is in the run's inventory array if and only
\* if the quantity differs from the state entry, and an item update is in
\* its item array if and only if enabled or price differs; a SKU of the
\* view that the state does not hold gets both; a SKU whose three values
\* are equal gets none.  (Arrays before a limit cuts them: a limited run
\* holds no update the rule does not ask for.)
C14_DeltaPushesWhatChanged ==
    DeltaRun =>
        \A sku \in SkusIn(runInfo.view) :
            LET data     == Get(runInfo.view, sku)
                known    == Has(runInfo.loaded, sku)
                prev     == Get(runInfo.loaded, sku)
                wantsInv == ~known \/ prev.quantity # data.quantity
                wantsItm == ~known \/ prev.enabled # data.enabled
                                   \/ prev.price # data.price
                inv      == InventoryUpdate(sku, data.quantity)
                itm      == ItemUpdate(sku, data.enabled, data.price)
            IN /\ sku \in SkusIn(inventoryUpdates)
                    => wantsInv /\ Holds(inventoryUpdates, inv)
               /\ sku \in SkusIn(itemUpdates)
                    => wantsItm /\ Holds(itemUpdates, itm)
               /\ options.limit = 0 =>
                    /\ wantsInv => Holds(inventoryUpdates, inv)
                    /\ wantsItm => Holds(itemUpdates, itm)

\* A completed delta run over a view of two SKUs: of one only the quantity
\* changed (inventory update only, phase 1 had nothing of it), the other
\* is new to the state (both updates), and the state took the new quantity.
C14_Witness ==
    /\ DeltaRun /\ CompletedFullRun
    /\ \E a, b \in Skus :
        /\ a # b
        /\ Has(runInfo.loaded, a) /\ Has(runInfo.view, a)
        /\ Get(runInfo.loaded, a).quantity # Get(runInfo.view, a).quantity
        /\ Get(runInfo.loaded, a).enabled = Get(runInfo.view, a).enabled
        /\ Get(runInfo.loaded, a).price = Get(runInfo.view, a).price
        /\ a \notin SkusIn(itemUpdates)
        /\ a \in SkusSentTo("inventory")
        /\ ~Has(runInfo.loaded, b) /\ Has(runInfo.view, b)
        /\ b \in SkusSentTo("items") /\ b \in SkusSentTo("inventory")
        /\ Get(Persisted, a).quantity = Get(runInfo.view, a).quantity

RECURSIVE EntriesSentTo(_, _)
EntriesSentTo(api, k) ==
    IF k = 0 THEN 0
    ELSE EntriesSentTo(api, k - 1)
         + (IF requests[k].api = api THEN Len(requests[k].data) ELSE 0)

\* The run was given a limit.
LimitedRun == pc # "idle" /\ options.limit > 0

\* C16: a run with limit L holds and sends at most L item updates and at
\* most L inventory updates, and no step of it, its last one included,
\* changes the state file: the run's new state map is not written.
C16_LimitedRunCapsAndKeepsTheState ==
    [][ LimitedRun' =>
          /\ Len(itemUpdates') <= options'.limit
          /\ Len(inventoryUpdates') <= options'.limit
          /\ EntriesSentTo("items", Len(requests))' <= options'.limit
          /\ EntriesSentTo("inventory", Len(requests))' <= options'.limit
          /\ stateFile' = stateFile
          /\ runInfo'.writes = 0
      ]_vars

\* A limited forced run over a state of an earlier run completed: its view
\* had more SKUs than the limit, it sent limit entries to each API, and the
\* state file still holds the earlier map, which is not the run's new one.
C16_Witness ==
    /\ LimitedRun /\ ~options.dryRun
    /\ pc = "done" /\ result.status = "success"
    /\ Len(runInfo.view) > options.limit
    /\ EntriesSentTo("items", Len(requests)) = options.limit
    /\ EntriesSentTo("inventory", Len(requests)) = options.limit
    /\ Len(runInfo.loaded) > 0
    /\ stateFile = runInfo.fileBefore
    /\ \E sku \in SkusIn(newState) :
          ~Has(Persisted, sku)
             \/ Get(Persisted, sku).quantity # Get(newState, sku).quantity

\* The requests of the run that the marketplace acknowledged: all of them,
\* but for the last one when the run ended with its call rejected.
AckedRequests ==
    IF result.thrown /\ result.source = "wolt"
    THEN SubSeq(requests, 1, Len(requests) - 1)
    ELSE requests

\* C17: in a limited run that is not dry, once a batch has been
\* acknowledged the state file holds, for every SKU of that batch, the
\* entry of the run's new state.
C17_LimitedRunPersistsBatchProgress ==
    (LimitedRun /\ ~options.dryRun) =>
        \A k \in DOMAIN AckedRequests :
            \A sku \in SkusIn(AckedRequests[k].data) :
                Has(newState, sku) =>
                    /\ Has(Persisted, sku)
                    /\ Get(Persisted, sku).quantity = Get(newState, sku).quantity
                    /\ Get(Persisted, sku).enabled = Get(newState, sku).enabled
                    /\ Get(Persisted, sku).price = Get(newState, sku).price

(***************************************************************************)
(* Properties of one run over the files it finds (SpecRun)                 *)
(***************************************************************************)
\* C11: a run that finds no primary state file loads the empty state even
\* when a backup file exists, and a non-bootstrap run whose loaded state is
\* empty is a force-full run: its two push arrays hold an item update and
\* an inventory update for every SKU of the SkuView (cut to the limit when
\* one is given), and when it completes, not dry and not limited, every
\* SKU of the view has been sent to both APIs.
C11_EmptyStateRunsForceFull ==
    /\ (pc # "idle" /\ loadResult # NotLoaded /\ runInfo.fileBefore.kind = "absent")
          => (runInfo.loaded = <<>> /\ ~loadResult.readBackup)
    /\ (PushingRun /\ runInfo.loaded = <<>>) =>
          /\ itemUpdates =
                ApplyLimit(ViewAsItemUpdates(runInfo.view), options.limit)
          /\ inventoryUpdates =
                ApplyLimit(ViewAsInventoryUpdates(runInfo.view), options.limit)
          /\ (/\ pc = "done" /\ result.status = "success"
              /\ ~options.dryRun /\ options.limit = 0)
                => /\ SkusSentTo("items") = SkusIn(runInfo.view)
                   /\ SkusSentTo("inventory") = SkusIn(runInfo.view)

\* The primary is gone, a backup with an entry is there; a scheduled run
\* has sent both updates of both SKUs of its view.
C11_Witness ==
    /\ pc = "done" /\ result.status = "success"
    /\ options = NoOptions
    /\ runInfo.fileBefore.kind = "absent"
    /\ backupFile.kind = "object" /\ Len(backupFile.doc) > 0
    /\ Len(runInfo.view) = 2
    /\ SkusSentTo("items") = Skus
    /\ SkusSentTo("inventory") = Skus

\* The entries of two state maps differ at sku.
DiffersAt(before, after, sku) ==
    \/ Has(before, sku) # Has(after, sku)
    \/ Has(before, sku) /\ Has(after, sku) /\ Get(before, sku) # Get(after, sku)

IncreaseThreshold  == 10        \* ADAPTIVE_INCREASE_THRESHOLD default
IncreaseRateTenths == 11        \* ADAPTIVE_INCREASE_RATE default 1.1
DecreaseRateTenths == 5         \* ADAPTIVE_DECREASE_RATE default 0.5
InitialBatchSize   == 1000      \* ADAPTIVE_INITIAL_BATCH_SIZE default
MinBatchSize       == 10        \* ADAPTIVE_MIN_BATCH_SIZE default
MaxBatchSize       == 5000      \* ADAPTIVE_MAX_BATCH_SIZE default
MaxPayloadItems    == 200       \* the marketplace rejects larger payloads
PriorityLimit      == 500       \* PRIORITY_SYNC_LIMIT default
DailyLimit         == 500       \* BACKGROUND_DAILY_LIMIT default

BatchConfig(known, currentBatchSize, minBatchSize, maxBatchSize, successStreak) ==
    [known |-> known, currentBatchSize |-> currentBatchSize,
     minBatchSize |-> minBatchSize, maxBatchSize |-> maxBatchSize,
     successStreak |-> successStreak]

\* this.config.get(venueId) is undefined
NoBatchConfig == BatchConfig(FALSE, 0, 0, 0, 0)

\* initConfig(venueId)
InitConfig == BatchConfig(TRUE, InitialBatchSize, MinBatchSize, MaxBatchSize, 0)

\* let config = this.config.get(venueId); if (!config) config = initConfig()
ConfigOf(config) == IF config.known THEN config ELSE InitConfig

\* Math.floor(size * rate), rate given in tenths
Scaled(size, tenths) == (size * tenths) \div 10

\* onSuccess: the config it leaves
OnSuccessNoCeiling(config) ==
    LET c == ConfigOf(config) IN
    IF c.successStreak + 1 >= IncreaseThreshold
    THEN [c EXCEPT !.currentBatchSize = Scaled(c.currentBatchSize, IncreaseRateTenths),
                   !.successStreak = 0]
    ELSE [c EXCEPT !.successStreak = @ + 1]

OnSuccess(config) ==
    LET c == ConfigOf(config) IN
    IF c.successStreak + 1 >= IncreaseThreshold
    THEN [c EXCEPT !.currentBatchSize =
                        Min(Scaled(c.currentBatchSize, IncreaseRateTenths),
                            c.maxBatchSize),
                   !.successStreak = 0]
    ELSE [c EXCEPT !.successStreak = @ + 1]

\* onRateLimit: the config it leaves
OnRateLimitKeepsSize(config) ==
    [ConfigOf(config) EXCEPT !.successStreak = 0]

OnRateLimit(config) ==
    LET c == ConfigOf(config) IN
    [c EXCEPT !.currentBatchSize =
                  Max(Scaled(c.currentBatchSize, DecreaseRateTenths), c.minBatchSize),
              !.successStreak = 0]

\* History of the batcher: whether the last call that changed the config
\* was onRateLimit and the size it found, and the sizes found by the
\* onSuccess calls made since the last onRateLimit (the last
\* IncreaseThreshold of them).
BatchLog(op, before, run) == [op |-> op, before |-> before, run |-> run]

NoBatchLog == BatchLog("none", 0, <<>>)

LastOf(run, n) == IF Len(run) > n THEN SubSeq(run, Len(run) - n + 1, Len(run)) ELSE run

\* ---- the three operations, called in any order ----
GetCurrentBatchSize ==
    /\ batcher' = ConfigOf(batcher)
    /\ UNCHANGED <<push, batchLog, fileVars, syncVars, rateVars,
                   tempFile, saveLog, schedVars, callVars>>

CallOnSuccess ==
    /\ batcher' = OnSuccess(batcher)
    /\ batchLog' =
          BatchLog("onSuccess", 0,
                   LastOf(Append(batchLog.run, ConfigOf(batcher).currentBatchSize),
                          IncreaseThreshold))
    /\ UNCHANGED <<push, fileVars, syncVars, rateVars,
                   tempFile, saveLog, schedVars, callVars>>

CallOnRateLimit ==
    /\ batcher' = OnRateLimit(batcher)
    /\ batchLog' = BatchLog("onRateLimit", ConfigOf(batcher).currentBatchSize, <<>>)
    /\ UNCHANGED <<push, fileVars, syncVars, rateVars,
                   tempFile, saveLog, schedVars, callVars>>

NextBatch ==
    \/ GetCurrentBatchSize
    \/ CallOnSuccess
    \/ CallOnRateLimit

(***************************************************************************)
(* The two push loops that take their batch size from the AdaptiveBatcher. *)
(* The arrays are modelled by their length: what is decided here is how    *)
(* many entries a request carries and where the loop stands.               *)
(***************************************************************************)
\* The loop: who runs it, its phase, the length of the array of the phase,
\* the loop variable i, the loop's batch size, the number of entries of
\* the request it has just issued (0: none), and as history whether the
\* loop has stepped over an entry of its arrays.
Push(caller, phase, total, i, size, sent, missed) ==
    [caller |-> caller, phase |-> phase, total |-> total, i |-> i,
     size |-> size, sent |-> sent, missed |-> missed]

NoPush == Push("none", "none", 0, 0, 0, 0, FALSE)

\* Number of SKUs the SoT offers to a push.
CatalogueSizes == {0, 25, 600}

InitBatch ==
    /\ batcher = NoBatchConfig
    /\ push = NoPush
    /\ batchLog = NoBatchLog

\* batch = updates.slice(i, i + currentBatchSize): its length
BatchLength(p) == Min(p.size, p.total - p.i)

\* Elements of the array between the end of the batch just acknowledged
\* and the index the loop goes on from after `i += next`: no later batch
\* holds them, the index only grows.
Skipped(p, next) == Max(0, Min(p.i + next, p.total) - (p.i + BatchLength(p)))

\* ---- HybridSyncOrchestrator.adaptiveSync (src/src/core/hybridSync.ts) ----
\* prioritySync hands over its two arrays, of equal length.
AdaptiveSyncStart ==
    /\ push.caller = "none"
    /\ \E catalogue \in CatalogueSizes :
        /\ catalogue > 0
        /\ push' = Push("adaptiveSync", "items", Min(catalogue, PriorityLimit), 0,
                        ConfigOf(batcher).currentBatchSize, 0, FALSE)
    /\ batcher' = ConfigOf(batcher)
    /\ UNCHANGED <<batchLog, fileVars, syncVars, rateVars,
                   tempFile, saveLog, schedVars, callVars>>

\* The call resolves; rateLimitHit tells whether a 429 was retried on the
\* way (updateInventory's result is not looked at).  The loop's increment
\* adds the batch size the batcher has just returned.
AdaptiveSyncBatchDone ==
    /\ push.caller = "adaptiveSync" /\ push.phase \in {"items", "inventory"}
    /\ push.i < push.total
    /\ \E rateLimitHit \in BOOLEAN :
        LET config == IF rateLimitHit /\ push.phase = "items"
                      THEN OnRateLimit(batcher) ELSE OnSuccess(batcher)
        IN /\ batcher' = config
           /\ push' = [push EXCEPT !.size = config.currentBatchSize,
                                   !.i = push.i + config.currentBatchSize,
                                   !.sent = BatchLength(push),
                                   !.missed = @ \/ Skipped(push, config.currentBatchSize) > 0]
    /\ UNCHANGED <<batchLog, fileVars, syncVars, rateVars,
                   tempFile, saveLog, schedVars, callVars>>

\* The call rejects with a 429: onRateLimit; i -= size; continue; i += size.
AdaptiveSyncBatchRateLimited ==
    /\ push.caller = "adaptiveSync" /\ push.phase \in {"items", "inventory"}
    /\ push.i < push.total
    /\ batcher' = OnRateLimit(batcher)
    /\ push' = [push EXCEPT !.size = OnRateLimit(batcher).currentBatchSize,
                            !.sent = BatchLength(push)]
    /\ UNCHANGED <<batchLog, fileVars, syncVars, rateVars,
                   tempFile, saveLog, schedVars, callVars>>

\* The call rejects with another error: adaptiveSync throws.
AdaptiveSyncBatchFails ==
    /\ push.caller = "adaptiveSync" /\ push.phase \in {"items", "inventory"}
    /\ push.i < push.total
    /\ push' = [push EXCEPT !.phase = "ended", !.sent = BatchLength(push)]
    /\ UNCHANGED <<batcher, batchLog, fileVars, syncVars, rateVars,
                   tempFile, saveLog, schedVars, callVars>>

\* The loop of a phase is over: phase 2 reads the batch size again.
AdaptiveSyncPhaseDone ==
    /\ push.caller = "adaptiveSync" /\ push.phase \in {"items", "inventory"}
    /\ push.i >= push.total
    /\ IF push.phase = "items"
       THEN push' = [push EXCEPT !.phase = "inventory", !.i = 0, !.sent = 0,
                                 !.size = ConfigOf(batcher).currentBatchSize]
       ELSE push' = [push EXCEPT !.phase = "ended", !.sent = 0]
    /\ UNCHANGED <<batcher, batchLog, fileVars, syncVars, rateVars,
                   tempFile, saveLog, schedVars, callVars>>

\* ---- BackgroundWorker.syncNextBatch (src/src/types/index.ts) ----
\* batchToSync = unsyncedItems.slice(0, dailyLimit); the loops keep the batch
\* size read here.
WorkerPushStart ==
    /\ push.caller = "none"
    /\ \E catalogue \in CatalogueSizes :
        /\ catalogue > 0
        /\ push' = Push("worker", "items", Min(catalogue, DailyLimit), 0,
                        ConfigOf(batcher).currentBatchSize, 0, FALSE)
    /\ batcher' = ConfigOf(batcher)
    /\ UNCHANGED <<batchLog, fileVars, syncVars, rateVars,
                   tempFile, saveLog, schedVars, callVars>>

\* One iteration: the call resolves; only phase 1 reports to the batcher.
WorkerBatchDone ==
    /\ push.caller = "worker" /\ push.phase \in {"items", "inventory"}
    /\ push.i < push.total
    /\ IF push.phase = "items"
       THEN \E rateLimitHit \in BOOLEAN :
              batcher' = IF rateLimitHit THEN OnRateLimit(batcher)
                         ELSE OnSuccess(batcher)
       ELSE UNCHANGED batcher
    /\ push' = [push EXCEPT !.i = push.i + push.size, !.sent = BatchLength(push)]
    /\ UNCHANGED <<batchLog, fileVars, syncVars, rateVars,
                   tempFile, saveLog, schedVars, callVars>>

\* One iteration: the call rejects, syncNextBatch throws.
WorkerBatchFails ==
    /\ push.caller = "worker" /\ push.phase \in {"items", "inventory"}
    /\ push.i < push.total
    /\ push' = [push EXCEPT !.phase = "ended", !.sent = BatchLength(push)]
    /\ UNCHANGED <<batcher, batchLog, fileVars, syncVars, rateVars,
                   tempFile, saveLog, schedVars, callVars>>

\* The loop of a phase is over, or shouldStop broke it.
WorkerPhaseDone ==
    /\ push.caller = "worker" /\ push.phase \in {"items", "inventory"}
    /\ \E shouldStop \in BOOLEAN :
        /\ shouldStop \/ push.i >= push.total
        /\ IF push.phase = "items" /\ ~shouldStop
           THEN push' = [push EXCEPT !.phase = "inventory", !.i = 0, !.sent = 0]
           ELSE push' = [push EXCEPT !.phase = "ended", !.sent = 0]
    /\ UNCHANGED <<batcher, batchLog, fileVars, syncVars, rateVars,
                   tempFile, saveLog, schedVars, callVars>>

\* adaptiveSync or syncNextBatch has returned or thrown.
PushReturns ==
    /\ push.phase = "ended"
    /\ push' = NoPush
    /\ UNCHANGED <<batcher, batchLog, fileVars, syncVars, rateVars,
                   tempFile, saveLog, schedVars, callVars>>

NextPush ==
    \/ AdaptiveSyncStart
    \/ AdaptiveSyncBatchDone
    \/ AdaptiveSyncBatchRateLimited
    \/ AdaptiveSyncBatchFails
    \/ AdaptiveSyncPhaseDone
    \/ WorkerPushStart
    \/ WorkerBatchDone
    \/ WorkerBatchFails
    \/ WorkerPhaseDone
    \/ PushReturns

(***************************************************************************)
(* Properties of the AdaptiveBatcher (SpecBatch) and of the push loops     *)
(* (SpecPush)                                                              *)
(***************************************************************************)
\* C7: no request of an adaptive-batched push carries more than 200
\* entries, and the batch size of the AdaptiveBatcher, starting from its
\* default initial size, never exceeds 200.
C7_NoBatchAboveMarketplaceCeiling ==
    /\ push.sent <= MaxPayloadItems
    /\ batcher.known => batcher.currentBatchSize <= MaxPayloadItems

\* C27: when adaptiveSync returns to prioritySync, which then marks every
\* SKU of the arrays as synced, every element of the item array and of the
\* inventory array has been in an acknowledged request, whatever sizes the
\* batcher returned on the way.
C27_EveryElementWasSent ==
    (push.caller = "adaptiveSync" /\ push.phase = "ended" /\ push.sent = 0)
        => ~push.missed

\* C8: after any sequence of getCurrentBatchSize, onSuccess and onRateLimit
\* calls on a freshly initialised entry, minBatchSize <= currentBatchSize
\* <= maxBatchSize.
C8_BatchSizeWithinBounds ==
    batcher.known =>
        /\ batcher.minBatchSize <= batcher.currentBatchSize
        /\ batcher.currentBatchSize <= batcher.maxBatchSize

\* The size has grown to the maximum and a further increase was due.
C8_Witness ==
    /\ batcher.known
    /\ batcher.currentBatchSize = batcher.maxBatchSize
    /\ Len(batchLog.run) = IncreaseThreshold
    /\ batchLog.run[IncreaseThreshold] = batcher.maxBatchSize
    /\ batcher.successStreak = 0

\* C9: onRateLimit leaves the batch size strictly smaller unless it was at
\* the minimum already; every run of increaseThreshold consecutive
\* onSuccess calls, with no onRateLimit between them, ends with a batch
\* size strictly larger than the one it started with unless that was the
\* maximum already.
C9_RateLimitShrinksSuccessRunGrows ==
    /\ batchLog.op = "onRateLimit" =>
          \/ batcher.currentBatchSize < batchLog.before
          \/ batchLog.before = batcher.minBatchSize
    /\ Len(batchLog.run) = IncreaseThreshold =>
          \/ batcher.currentBatchSize > batchLog.run[1]
          \/ batchLog.run[1] = batcher.maxBatchSize

\* A run of successes that began in the middle of a streak, after a rate
\* limit had halved the size.
C9_Witness ==
    /\ Len(batchLog.run) = IncreaseThreshold
    /\ batcher.successStreak = 3
    /\ batchLog.run[1] < InitialBatchSize
    /\ batcher.currentBatchSize > batchLog.run[1]

(***************************************************************************)
(* WoltRateLimiter (src/core/woltRateLimiter.ts), withWoltApiRetry         *)
(* (src/src/utils/retry.ts) and WoltAdapter.updateItems / updateInventory  *)
(* (src/src/adapters/wolt.ts) for one venue.  Times are in milliseconds.   *)
(* The adapter's queue runs one call at a time, so one call is in progress *)
(* at most.                                                                *)
(***************************************************************************)
MinIntervalMs           == 1100      \* WOLT_RATE_LIMIT_MIN_INTERVAL_MS default
RetryAfterBufferMs      == 1000      \* WOLT_RETRY_AFTER_BUFFER_MS default
RetryAfterJitterMs      == 250       \* WOLT_RETRY_AFTER_JITTER_MS default
MaxLearnedMinIntervalMs == 3600000   \* WOLT_MAX_LEARNED_MIN_INTERVAL_MS default
WoltMaxAttempts         == 8         \* withWoltApiRetry maxAttempts
WoltInitialDelay        == 2000      \* withWoltApiRetry initialDelay
WoltBackoffFactor       == 2         \* withWoltApiRetry backoffFactor
RetryMaxDelay           == 30000     \* withRetry DEFAULT_OPTIONS.maxDelay
RetryHeaderBufferMs     == 1000      \* withRetry: retrySeconds * 1000 + 1000

MaxRequests == 5        \* requests issued in one behaviour
StartTime   == 100000   \* Date.now() when the process starts
LatencyMs   == 200      \* time a request takes to be answered

RetryAfterSeconds == {1, 3}     \* N of a Retry-After header
Jitters           == {0, RetryAfterJitterMs - 1}   \* floor(random() * jitterMs)
IdleGaps          == {0, 5000}  \* time between two calls of the adapter

\* The Retry-After header of a response: none, delta-seconds "N", or the
\* HTTP date that lies N seconds after the response.
Header(kind, seconds) == [kind |-> kind, seconds |-> seconds]

NoHeader == Header("none", 0)

RetryAfterHeaders ==
    {NoHeader} \cup {Header(k, n) : k \in {"seconds", "date"}, n \in RetryAfterSeconds}

\* parseRetryAfterMs(value, now): -1 stands for undefined
ParseRetryAfterMs(header) ==
    CASE header.kind = "none"    -> -1
      [] header.kind = "seconds" -> Max(0, header.seconds * 1000)
      [] header.kind = "date"    -> Max(0, header.seconds * 1000)

\* The limiter's fields, and the venue's entry of rate-limits.json.
Limiter(nextAllowedAtMs, lastRequestAtMs, learnedMinIntervalMs) ==
    [nextAllowedAtMs |-> nextAllowedAtMs, lastRequestAtMs |-> lastRequestAtMs,
     learnedMinIntervalMs |-> learnedMinIntervalMs]

LimiterEntry(exists, nextAllowedAtMs, learnedMinIntervalMs) ==
    [exists |-> exists, nextAllowedAtMs |-> nextAllowedAtMs,
     learnedMinIntervalMs |-> learnedMinIntervalMs]

NoLimiterEntry == LimiterEntry(FALSE, 0, 0)

\* loadState(): the fields after it
LimiterLoadState(l, file) ==
    IF file.exists
    THEN [l EXCEPT !.nextAllowedAtMs = file.nextAllowedAtMs,
                   !.learnedMinIntervalMs = file.learnedMinIntervalMs]
    ELSE l

\* saveState(): the entry it writes
LimiterSaveState(l) == LimiterEntry(TRUE, l.nextAllowedAtMs, l.learnedMinIntervalMs)

\* waitForTurn(): gateAt, computed on the reloaded fields
GateAtIgnoringRateLimit(l) ==
    IF l.lastRequestAtMs > 0
    THEN l.lastRequestAtMs + Max(MinIntervalMs, l.learnedMinIntervalMs)
    ELSE 0

GateAt(l) ==
    LET minIntervalGate ==
            IF l.lastRequestAtMs > 0
            THEN l.lastRequestAtMs + Max(MinIntervalMs, l.learnedMinIntervalMs)
            ELSE 0
    IN Max(l.nextAllowedAtMs, minIntervalGate)

\* onRateLimited(header) at time now with the jitter drawn: the fields after it
OnRateLimitedNoBuffer(l, header, now, jitter) ==
    LET retryAfterMs == ParseRetryAfterMs(header) IN
    IF retryAfterMs > 0
    THEN [l EXCEPT !.learnedMinIntervalMs =
                        Min(Max(l.learnedMinIntervalMs, retryAfterMs),
                            MaxLearnedMinIntervalMs),
                   !.nextAllowedAtMs =
                        Max(l.nextAllowedAtMs, now + retryAfterMs + jitter)]
    ELSE l

OnRateLimited(l, header, now, jitter) ==
    LET retryAfterMs == ParseRetryAfterMs(header) IN
    IF retryAfterMs > 0
    THEN [l EXCEPT !.learnedMinIntervalMs =
                        Min(Max(l.learnedMinIntervalMs, retryAfterMs),
                            MaxLearnedMinIntervalMs),
                   !.nextAllowedAtMs =
                        Max(l.nextAllowedAtMs,
                            now + retryAfterMs + RetryAfterBufferMs + jitter)]
    ELSE l

\* onSuccess() at time now: the fields after it (not saved)
LimiterOnSuccess(l, now) ==
    LET postSuccessDelay == Max(MinIntervalMs, l.learnedMinIntervalMs) IN
    IF postSuccessDelay <= 0 THEN l
    ELSE [l EXCEPT !.nextAllowedAtMs = Max(l.nextAllowedAtMs, now + postSuccessDelay)]

\* withRetry: the delay before the next attempt.  parseInt of a date is NaN.
RetryDelay(header, delay) ==
    IF header.kind = "seconds"
    THEN header.seconds * 1000 + RetryHeaderBufferMs
    ELSE delay

\* The call in progress: where it stands, the attempt number and the delay
\* of withRetry.
Call(at, attempt, delay) == [at |-> at, attempt |-> attempt, delay |-> delay]

NoCall == Call("idle", 0, 0)

\* History of the venue: requests issued so far, the latest time any 429
\* with Retry-After N > 0 has asked to stay away until (response time + N
\* seconds + the configured buffer), the time of the last request and that
\* deadline as it stood when the request was issued.
VenueLog(count, deadline, issuedAt, deadlineAtIssue) ==
    [count |-> count, deadline |-> deadline, issuedAt |-> issuedAt,
     deadlineAtIssue |-> deadlineAtIssue]

InitRate ==
    /\ limiter = Limiter(0, 0, 0)
    /\ limiterFile = NoLimiterEntry
    /\ clock = StartTime
    /\ call = NoCall
    /\ venueLog = VenueLog(0, 0, 0, 0)

\* updateItems / updateInventory is called; the queue starts it.
StartCall ==
    /\ call.at = "idle"
    /\ venueLog.count < MaxRequests
    /\ \E gap \in IdleGaps : clock' = clock + gap
    /\ call' = Call("turn", 1, WoltInitialDelay)
    /\ UNCHANGED <<limiter, limiterFile, venueLog, fileVars, syncVars, batchVars,
                   tempFile, saveLog, schedVars, callVars>>

\* waitForTurn: reload, sleep until the gate, note the time; then the
\* request is issued.
WaitForTurn ==
    /\ call.at = "turn"
    /\ venueLog.count < MaxRequests
    /\ LET loaded == LimiterLoadState(limiter, limiterFile)
           now    == Max(clock, GateAt(loaded))
       IN /\ clock' = now
          /\ limiter' = [loaded EXCEPT !.lastRequestAtMs = now]
          /\ venueLog' = VenueLog(venueLog.count + 1, venueLog.deadline, now,
                                  venueLog.deadline)
    /\ call' = [call EXCEPT !.at = "inflight"]
    /\ UNCHANGED <<limiterFile, fileVars, syncVars, batchVars,
                   tempFile, saveLog, schedVars, callVars>>

\* 2xx: limiter.onSuccess(), the call resolves.
RequestSucceeds ==
    /\ call.at = "inflight"
    /\ clock' = clock + LatencyMs
    /\ limiter' = LimiterOnSuccess(limiter, clock + LatencyMs)
    /\ call' = NoCall
    /\ UNCHANGED <<limiterFile, venueLog, fileVars, syncVars, batchVars,
                   tempFile, saveLog, schedVars, callVars>>

\* 409 is taken as success; any other 4xx is thrown and not retried.
RequestRejected ==
    /\ call.at = "inflight"
    /\ clock' = clock + LatencyMs
    /\ call' = NoCall
    /\ UNCHANGED <<limiter, limiterFile, venueLog, fileVars, syncVars, batchVars,
                   tempFile, saveLog, schedVars, callVars>>

\* withRetry after a retriable error: throw on the last attempt, else sleep
\* and go round again.
RetryOrThrow(header, now) ==
    IF call.attempt = WoltMaxAttempts
    THEN /\ call' = NoCall
         /\ clock' = now
    ELSE /\ call' = Call("turn", call.attempt + 1,
                         Min(call.delay * WoltBackoffFactor, RetryMaxDelay))
         /\ clock' = now + RetryDelay(header, call.delay)

\* 429: limiter.onRateLimited(retry-after), saved when it blocks; rethrown
\* to withRetry.
RequestRateLimited ==
    /\ call.at = "inflight"
    /\ \E header \in RetryAfterHeaders, jitter \in Jitters :
        LET now     == clock + LatencyMs
            limited == OnRateLimited(limiter, header, now, jitter)
        IN /\ header.kind = "none" => jitter = 0
           /\ limiter' = limited
           /\ limiterFile' = IF ParseRetryAfterMs(header) > 0
                             THEN LimiterSaveState(limited) ELSE limiterFile
           /\ venueLog' =
                 [venueLog EXCEPT !.deadline =
                    IF header.kind # "none" /\ header.seconds > 0
                    THEN Max(@, now + header.seconds * 1000 + RetryAfterBufferMs)
                    ELSE @]
           /\ RetryOrThrow(header, now)
    /\ UNCHANGED <<fileVars, syncVars, batchVars,
                   tempFile, saveLog, schedVars, callVars>>

\* 5xx or no response: rethrown to withRetry.
RequestServerError ==
    /\ call.at = "inflight"
    /\ RetryOrThrow(NoHeader, clock + LatencyMs)
    /\ UNCHANGED <<limiter, limiterFile, venueLog, fileVars, syncVars, batchVars,
                   tempFile, saveLog, schedVars, callVars>>

\* A later run works with a limiter of its own (another adapter, a new
\* process): WoltRateLimiter.fromEnv(key) loads the venue's entry.
NewLimiter ==
    /\ call.at = "idle"
    /\ limiter # LimiterLoadState(Limiter(0, 0, 0), limiterFile)
    /\ limiter' = LimiterLoadState(Limiter(0, 0, 0), limiterFile)
    /\ UNCHANGED <<limiterFile, clock, call, venueLog, fileVars, syncVars, batchVars,
                   tempFile, saveLog, schedVars, callVars>>

NextRate ==
    \/ StartCall
    \/ WaitForTurn
    \/ RequestSucceeds
    \/ RequestRejected
    \/ RequestRateLimited
    \/ RequestServerError
    \/ NewLimiter

ReadableFile(file) ==
    /\ file.kind = "object"
    /\ IsValidState(file)

\* C10: loadState never throws and returns the empty map when the primary
\* file is absent, without reading the backup even if there is one; the
\* primary's content when the primary is present and valid; the backup's
\* content when the primary is present but unparseable or schema-invalid
\* and the backup is valid; the empty map when both are invalid.
C10_LoadStateFallsBackInOrder ==
    loadResult.from # "none" =>
        /\ loadResult.from \in {"primary", "backup", "empty"}
        /\ stateFile.kind = "absent" =>
              loadResult.state = <<>> /\ ~loadResult.readBackup
        /\ ReadableFile(stateFile) =>
              loadResult.state = FromJson(stateFile) /\ ~loadResult.readBackup
        /\ (stateFile.kind # "absent" /\ ~ReadableFile(stateFile)
                /\ ReadableFile(backupFile)) =>
              loadResult.state = FromJson(backupFile)
        /\ (stateFile.kind # "absent" /\ ~ReadableFile(stateFile)
                /\ ~ReadableFile(backupFile)) =>
              loadResult.state = <<>>

\* A primary that parses but fails the schema, next to a backup with an entry.
C10_Witness ==
    /\ loadResult.from = "backup"
    /\ stateFile.kind = "object"
    /\ Len(loadResult.state) > 0
    /\ loadResult.state = FromJson(backupFile)

(***************************************************************************)
(* Properties of saveState (SpecSave)                                      *)
(***************************************************************************)
\* C12: when no file operation of a saveState call fails, the loadState
\* that follows it returns a map equal to the one that was saved.
C12_SaveThenLoadReturnsTheMap ==
    (saveLog.called /\ saveLog.clean /\ loadResult # NotLoaded)
        => /\ loadResult.state = saveLog.state
           /\ loadResult.from = "primary"

\* A map with an entry that has no price was saved over an existing primary
\* file and loaded back.
C12_Witness ==
    /\ saveLog.called /\ saveLog.clean
    /\ saveLog.primaryBefore.kind # "absent"
    /\ Len(saveLog.state) > 0
    /\ \E i \in DOMAIN saveLog.state : saveLog.state[i].price = JMissing
    /\ loadResult.from = "primary"
    /\ loadResult.state = saveLog.state

\* C13: a saveState call never throws, and one that fails (its temporary
\* file cannot be written, or the rename and its copy fallback do not
\* complete) leaves the primary file with its previous content and no
\* temporary file.
C13_FailedSaveLeavesPreviousFile ==
    saveLog.called =>
        /\ ~saveLog.thrown
        /\ saveLog.failed =>
              /\ stateFile = saveLog.primaryBefore
              /\ tempFile = AbsentFile


(***************************************************************************)
(* The scheduler process (src/index.ts): a timer and POST /trigger-sync    *)
(* call runAllSyncs, or runSingleStoreSync when STORE_ID is set.  The      *)
(* process is single-threaded: a call runs without interruption up to its  *)
(* next await, which is the engine.run of a store.                         *)
(***************************************************************************)
MaxInvocations == 2     \* calls in progress the model follows at once

StoreIds == {1, 2}                  \* ids of the configured stores

\* One call of runAllSyncs / runSingleStoreSync that is awaiting engine.run:
\* the stores it goes through, the position of the one being run and the
\* syncResults so far.
Invocation(kind, list, at, syncResults) ==
    [kind |-> kind, list |-> list, at |-> at, syncResults |-> syncResults]

\* stores.filter(s => s.enabled), in the order of the configuration
EnabledStores ==
    LET first  == IF stores[1] THEN <<1>> ELSE <<>>
        second == IF stores[2] THEN <<2>> ELSE <<>>
    IN first \o second

\* The process after start-up, for a configuration and a STORE_ID.
StartedWith(configured, id) ==
    /\ stores = configured
    /\ storeId = id
    /\ isSyncing = FALSE
    /\ lastSyncStatus =
          IF \A s \in StoreIds : ~configured[s] THEN "disabled"
          ELSE IF id # 0 /\ (id \notin StoreIds \/ ~configured[id])
               THEN "disabled" ELSE "idle"
    /\ invocations = <<>>
    /\ schedLog = [refused |-> FALSE, kind |-> "none", syncResults |-> <<>>]

InitSched ==
    \E configured \in [StoreIds -> BOOLEAN], id \in {0, 3} \cup StoreIds :
        StartedWith(configured, id)

\* if (isSyncing) return
SweepMayStartAlways(flag) == TRUE

SweepMayStart(flag) == ~flag

\* The call returns at once: a sweep is in progress.
Refused ==
    /\ schedLog' = [schedLog EXCEPT !.refused = TRUE]
    /\ UNCHANGED <<isSyncing, lastSyncStatus, invocations>>

\* runAllSyncs up to its first await
RunAllSyncs ==
    IF ~SweepMayStart(isSyncing) THEN Refused
    ELSE IF EnabledStores = <<>>
         THEN /\ lastSyncStatus' = "disabled"
              /\ isSyncing' = FALSE
              /\ schedLog' = [schedLog EXCEPT !.refused = FALSE]
              /\ UNCHANGED invocations
         ELSE /\ isSyncing' = TRUE
              /\ invocations' =
                    Append(invocations, Invocation("all", EnabledStores, 1, <<>>))
              /\ schedLog' = [schedLog EXCEPT !.refused = FALSE]
              /\ UNCHANGED lastSyncStatus

\* runSingleStoreSync up to its await
RunSingleStoreSync ==
    IF ~SweepMayStart(isSyncing) THEN Refused
    ELSE IF storeId \notin StoreIds \/ ~stores[storeId]
         THEN /\ lastSyncStatus' = "disabled"
              /\ schedLog' = [schedLog EXCEPT !.refused = FALSE]
              /\ UNCHANGED <<isSyncing, invocations>>
         ELSE /\ isSyncing' = TRUE
              /\ invocations' =
                    Append(invocations, Invocation("single", <<storeId>>, 1, <<>>))
              /\ schedLog' = [schedLog EXCEPT !.refused = FALSE]
              /\ UNCHANGED lastSyncStatus

\* setTimeout / setInterval callback; the timers are set only if the
\* process has a store to run.
TimerFires ==
    /\ Len(invocations) < MaxInvocations
    /\ IF storeId # 0
       THEN /\ storeId \in StoreIds /\ stores[storeId]
            /\ RunSingleStoreSync
       ELSE /\ EnabledStores # <<>>
            /\ RunAllSyncs
    /\ UNCHANGED <<stores, storeId, fileVars, tempFile, saveLog, syncVars, batchVars,
                   rateVars, callVars>>

\* POST /trigger-sync from localhost
TriggerSync ==
    /\ Len(invocations) < MaxInvocations
    /\ IF isSyncing THEN Refused                       \* 409
       ELSE IF storeId # 0 THEN RunSingleStoreSync ELSE RunAllSyncs
    /\ UNCHANGED <<stores, storeId, fileVars, tempFile, saveLog, syncVars, batchVars,
                   rateVars, callVars>>

\* failureCount > 0 ? 'partial' : 'success'
SweepStatus(syncResults) ==
    IF \E k \in DOMAIN syncResults : syncResults[k] = "error"
    THEN "partial" ELSE "success"

\* The awaited engine.run of invocation i settles with status: the loop of
\* runAllSyncs goes on to the next store or ends the sweep; the
\* try/catch/finally of runSingleStoreSync ends the call.
EngineRunSettles(i, status) ==
    LET inv     == invocations[i]
        results == Append(inv.syncResults, status)
    IN IF inv.kind = "all" /\ inv.at < Len(inv.list)
       THEN /\ invocations' =
                  [invocations EXCEPT ![i] =
                      Invocation("all", inv.list, inv.at + 1, results)]
            /\ UNCHANGED <<isSyncing, lastSyncStatus, schedLog>>
       ELSE /\ invocations' = SubSeq(invocations, 1, i - 1)
                               \o SubSeq(invocations, i + 1, Len(invocations))
            /\ isSyncing' = FALSE
            /\ lastSyncStatus' =
                  IF inv.kind = "all" THEN SweepStatus(results) ELSE status
            /\ schedLog' = [refused |-> schedLog.refused, kind |-> inv.kind,
                             syncResults |-> results]

EngineRunEnds ==
    /\ \E i \in DOMAIN invocations, status \in {"success", "error"} :
          EngineRunSettles(i, status)
    /\ UNCHANGED <<stores, storeId, fileVars, tempFile, saveLog, syncVars, batchVars,
                   rateVars, callVars>>

NextSched ==
    \/ TimerFires
    \/ TriggerSync
    \/ EngineRunEnds

(***************************************************************************)
(* Properties of the scheduler process (SpecSched)                         *)
(***************************************************************************)
\* C19: at most one call of runAllSyncs / runSingleStoreSync is awaiting an
\* engine.run, so at most one SyncEngine run is in progress in the process
\* (and hence for any store); a timer callback or a manual trigger that
\* arrives while a sweep is in progress starts no run; within a sweep the
\* stores are run one at a time in the order of the configuration, the
\* next one only when the run of the one before has settled.
C19_OneRunAtATime ==
    [][ /\ Len(invocations') <= 1
        /\ Len(invocations') = 1 => isSyncing'
        /\ isSyncing => Len(invocations') <= Len(invocations)
        /\ (Len(invocations) = 1 /\ Len(invocations') = 1) =>
              \/ invocations' = invocations
              \/ /\ invocations'[1].list = invocations[1].list
                 /\ invocations'[1].at = invocations[1].at + 1
                 /\ Len(invocations'[1].syncResults) = invocations[1].at
      ]_vars

\* A sweep over two stores is running its second store, and a call that
\* arrived meanwhile was turned away.
C19_Witness ==
    /\ isSyncing
    /\ Len(invocations) = 1
    /\ invocations[1].kind = "all"
    /\ invocations[1].list = <<1, 2>>
    /\ invocations[1].at = 2
    /\ schedLog.refused

\* The outcome of a sweep as the specification words it.
SweepOutcome(syncResults) ==
    IF \A k \in DOMAIN syncResults : syncResults[k] = "success" THEN "success"
    ELSE IF \A k \in DOMAIN syncResults : syncResults[k] = "error" THEN "error"
    ELSE "partial"

\* C20: a sweep over all stores runs every enabled store, also after the
\* run of one of them threw, and the status it records is success when
\* every store succeeded, error when every store failed and partial
\* otherwise.
C20_SweepOutcomeCountsFailures ==
    (schedLog.kind = "all" /\ ~isSyncing) =>
        /\ Len(schedLog.syncResults) = Len(EnabledStores)
        /\ lastSyncStatus = SweepOutcome(schedLog.syncResults)

(***************************************************************************)
(* CircuitBreaker (src/src/utils/circuitBreaker.ts).  Times are in         *)
(* milliseconds; 0 stands for a time field that is undefined.  The calls   *)
(* of one breaker come one after another: the adapters await each call,    *)
(* and the marketplace adapter's queue has concurrency 1.                  *)
(***************************************************************************)
FinaFailureThreshold == 5
FinaSuccessThreshold == 2
FinaTimeout          == 60000
FinaResetTimeout     == 300000
WoltFailureThreshold == 10
WoltSuccessThreshold == 3
WoltTimeout          == 120000
WoltResetTimeout     == 600000

MaxCalls == 8           \* execute calls of one behaviour

\* The options of the two pre-configured breakers.
BreakerOptions(name) ==
    IF name = "Fina API"
    THEN [failureThreshold |-> FinaFailureThreshold,
          successThreshold |-> FinaSuccessThreshold,
          timeout |-> FinaTimeout, resetTimeout |-> FinaResetTimeout]
    ELSE [failureThreshold |-> WoltFailureThreshold,
          successThreshold |-> WoltSuccessThreshold,
          timeout |-> WoltTimeout, resetTimeout |-> WoltResetTimeout]

\* new CircuitBreaker({name, ...}), no call made yet
InitBreaker(name) ==
    /\ breaker = [name |-> name, state |-> "closed", failures |-> 0,
                  successes |-> 0, lastFailureTime |-> 0, nextAttemptTime |-> 0]
    /\ breakerLog = [calls |-> 0, last |-> "none", at |-> 0, doneAt |-> 0,
                     was |-> "closed", ranIn |-> "none", nextWas |-> 0,
                     streak |-> 0, probes |-> 0, errorName |-> "none"]

\* transitionTo(newState) at time now
TransitionTo(b, target, now) ==
    CASE target = "open" ->
            [b EXCEPT !.state = "open",
                      !.nextAttemptTime = now + BreakerOptions(b.name).timeout]
      [] target = "half-open" ->
            [b EXCEPT !.state = "half-open", !.successes = 0]
      [] target = "closed" ->
            [b EXCEPT !.state = "closed", !.failures = 0, !.successes = 0,
                      !.nextAttemptTime = 0]

\* onSuccess() at time now
BreakerOnSuccess(b, now) ==
    IF b.state = "half-open"
    THEN IF b.successes + 1 >= BreakerOptions(b.name).successThreshold
         THEN TransitionTo([b EXCEPT !.successes = @ + 1], "closed", now)
         ELSE [b EXCEPT !.successes = @ + 1]
    ELSE IF /\ b.state = "closed"
            /\ b.lastFailureTime # 0
            /\ now - b.lastFailureTime > BreakerOptions(b.name).resetTimeout
         THEN [b EXCEPT !.failures = 0]
         ELSE b

\* a failure in half-open that leaves the breaker probing
BreakerOnFailureKeepsProbing(b, now) ==
    LET failed == [b EXCEPT !.lastFailureTime = now] IN
    IF b.state = "closed"
    THEN IF b.failures + 1 >= BreakerOptions(b.name).failureThreshold
         THEN TransitionTo([failed EXCEPT !.failures = @ + 1], "open", now)
         ELSE [failed EXCEPT !.failures = @ + 1]
    ELSE failed

\* onFailure(error) at time now
BreakerOnFailure(b, now) ==
    LET failed == [b EXCEPT !.lastFailureTime = now] IN
    IF b.state = "half-open" THEN TransitionTo(failed, "open", now)
    ELSE IF b.state = "closed"
         THEN IF b.failures + 1 >= BreakerOptions(b.name).failureThreshold
              THEN TransitionTo([failed EXCEPT !.failures = @ + 1], "open", now)
              ELSE [failed EXCEPT !.failures = @ + 1]
         ELSE failed

\* getState() at time now
GetState(b, now) ==
    IF b.state = "open" /\ now >= b.nextAttemptTime THEN "half-open" ELSE b.state

\* an open breaker that lets every call through
StillOpenNever(b, now) == FALSE

\* execute: this.state === 'open' && Date.now() < (this.nextAttemptTime || 0)
StillOpen(b, now) == b.state = "open" /\ now < b.nextAttemptTime

\* execute(fn), called at time now; fn, when it is invoked, settles after
\* LatencyMs, resolved or rejected.  breakerLog notes the call: when it was
\* made and when it ended, the state and the nextAttemptTime it found, the
\* state in which fn ran ("none": fn was not invoked), the number of failed
\* calls in a row up to this one, the number of successful calls since the
\* breaker last became half-open, and the circuitName of the
\* CircuitBreakerError.
Execute(now, resolves) ==
    IF StillOpen(breaker, now)
    THEN /\ UNCHANGED breaker
         /\ breakerLog' =
               [breakerLog EXCEPT !.calls = @ + 1, !.last = "rejected",
                                  !.at = now, !.doneAt = now,
                                  !.was = breaker.state, !.ranIn = "none",
                                  !.nextWas = breaker.nextAttemptTime,
                                  !.errorName = breaker.name]
    ELSE LET entered == IF breaker.state = "open"
                        THEN TransitionTo(breaker, "half-open", now)
                        ELSE breaker
             settled == now + LatencyMs
         IN /\ breaker' = IF resolves THEN BreakerOnSuccess(entered, settled)
                          ELSE BreakerOnFailure(entered, settled)
            /\ breakerLog' =
                  [calls |-> breakerLog.calls + 1,
                   last |-> IF resolves THEN "success" ELSE "failure",
                   at |-> now, doneAt |-> settled,
                   was |-> breaker.state, ranIn |-> entered.state,
                   nextWas |-> breaker.nextAttemptTime,
                   streak |-> IF resolves THEN 0 ELSE breakerLog.streak + 1,
                   probes |-> IF ~resolves THEN 0
                              ELSE IF breaker.state = "open" THEN 1
                              ELSE IF breaker.state = "half-open"
                                   THEN breakerLog.probes + 1
                              ELSE 0,
                   errorName |-> "none"]

\* One call of the breaker, some time after the one before.
BreakerCall ==
    /\ breakerLog.calls < MaxCalls
    /\ \E wait \in {0, BreakerOptions(breaker.name).timeout - 1,
                    BreakerOptions(breaker.name).timeout,
                    BreakerOptions(breaker.name).resetTimeout + 1},
          resolves \in BOOLEAN :
          Execute(clock + wait, resolves)
    /\ clock' = breakerLog'.doneAt
    /\ UNCHANGED <<limiter, limiterFile, call, venueLog, retry, otherVars, fileVars,
                   tempFile, saveLog, syncVars, batchVars, schedVars>>

\* an adapter whose 409 answers count as failures of the breaker
AdapterResolvesConflictFails ==
    /\ \E status \in {200, 409} :
          BatchResolves(status) /\ Execute(clock, status # 409)
    /\ UNCHANGED <<retry, otherVars>>

\* WoltAdapter.updateItems / updateInventory resolves: the marketplace
\* answered 2xx, or 409, which the adapter logs and returns as a success, so
\* that withWoltApiRetry returns and the breaker's execute records a success.
AdapterResolves ==
    /\ \E status \in {200, 409} : BatchResolves(status)
    /\ Execute(clock, TRUE)
    /\ UNCHANGED <<retry, otherVars>>

\* WoltAdapter.updateItems / updateInventory rejects: the error went through
\* withWoltApiRetry, and the breaker's execute records a failure.
AdapterRejects ==
    /\ BatchRejects
    /\ Execute(clock, FALSE)
    /\ UNCHANGED <<retry, otherVars>>

\* One run of a store, with the retries of its marketplace calls and the
\* marketplace breaker.
NextRun ==
    \/ RunDisabledStore
    \/ RunEmptyInventory
    \/ RunShortDetails
    \/ RunBootstrap
    \/ RunStart
    \/ AdapterResolves
    \/ AdapterRejects
    \/ ItemsPhaseDone
    \/ SaveFinalState
    \/ BatchRateLimited

(***************************************************************************)
(* withRetry, withFinaAuthRetry and withWoltApiRetry                       *)
(* (src/src/utils/retry.ts).  An error is its response status (0: the      *)
(* error has no response) and the Retry-After header of the response.      *)
(***************************************************************************)
DefaultMaxAttempts    == 3
DefaultInitialDelay   == 1000
DefaultBackoffFactor  == 2
FinaAuthMaxAttempts   == 3
FinaAuthInitialDelay  == 2000
FinaAuthBackoffFactor == 1

\* The errors the wrapped operation may reject with.
RetryErrors ==
    {[status |-> st, header |-> NoHeader] : st \in {0, 400, 404, 409, 429, 500, 599}}
    \cup {[status |-> 429, header |-> Header("seconds", 1)]}

\* opts = { ...DEFAULT_OPTIONS, ...options } of the three entry points
RetryOptions(policy) ==
    CASE policy = "withRetry" ->
            [maxAttempts |-> DefaultMaxAttempts, initialDelay |-> DefaultInitialDelay,
             maxDelay |-> RetryMaxDelay, backoffFactor |-> DefaultBackoffFactor]
      [] policy = "withFinaAuthRetry" ->
            [maxAttempts |-> FinaAuthMaxAttempts, initialDelay |-> FinaAuthInitialDelay,
             maxDelay |-> RetryMaxDelay, backoffFactor |-> FinaAuthBackoffFactor]
      [] policy = "withWoltApiRetry" ->
            [maxAttempts |-> WoltMaxAttempts, initialDelay |-> WoltInitialDelay,
             maxDelay |-> RetryMaxDelay, backoffFactor |-> WoltBackoffFactor]

\* a marketplace classifier that gives up on network-level failures
WoltRetryIfHasResponse(error) ==
    \/ error.status >= 500 /\ error.status < 600
    \/ error.status = 429

\* retryIf of withWoltApiRetry
WoltRetryIf(error) ==
    \/ error.status >= 500 /\ error.status < 600
    \/ error.status = 429
    \/ error.status = 0

\* opts.retryIf && !opts.retryIf(error)
ClassifierRejects(policy, error) ==
    policy = "withWoltApiRetry" /\ ~WoltRetryIf(error)

\* a loop that sleeps after its last attempt too
LastAttemptNever(r) == FALSE

\* attempt === opts.maxAttempts
LastAttempt(r) == r.attempt = RetryOptions(r.policy).maxAttempts

\* No withRetry call yet.  A call's record: where it stands, its entry
\* point, the loop's attempt and delay, lastError, and as history the
\* number of times fn was invoked, the number of sleeps, the length of the
\* last sleep and the invocation whose result was returned.
InitRetry ==
    retry = [at |-> "idle", policy |-> "none", attempt |-> 0, delay |-> 0,
             lastError |-> [status |-> 0, header |-> NoHeader],
             invoked |-> 0, sleeps |-> 0, slept |-> 0, returned |-> 0]

\* withRetry(fn, options) is called: attempt 1 invokes fn.
WithRetryStart ==
    /\ retry.at = "idle"
    /\ \E policy \in {"withRetry", "withFinaAuthRetry", "withWoltApiRetry"} :
          retry' = [retry EXCEPT !.at = "calling", !.policy = policy,
                                 !.attempt = 1,
                                 !.delay = RetryOptions(policy).initialDelay]
    /\ UNCHANGED <<breaker, breakerLog, otherVars, rateVars, fileVars, tempFile, saveLog,
                   syncVars, batchVars, schedVars>>

\* return await fn(): fn resolves
FnResolves ==
    /\ retry.at = "calling"
    /\ retry' = [retry EXCEPT !.at = "returned", !.invoked = @ + 1,
                              !.returned = retry.invoked + 1]
    /\ UNCHANGED <<breaker, breakerLog, otherVars, rateVars, fileVars, tempFile, saveLog,
                   syncVars, batchVars, schedVars>>

\* catch (error): throw it, or start the sleep before the next attempt
FnRejects ==
    /\ retry.at = "calling"
    /\ \E error \in RetryErrors :
          LET caught == [retry EXCEPT !.invoked = @ + 1, !.lastError = error] IN
          retry' = IF ClassifierRejects(retry.policy, error) \/ LastAttempt(retry)
                   THEN [caught EXCEPT !.at = "thrown"]
                   ELSE [caught EXCEPT !.at = "sleeping", !.sleeps = @ + 1,
                                       !.slept = RetryDelay(error.header, retry.delay)]
    /\ UNCHANGED <<breaker, breakerLog, otherVars, rateVars, fileVars, tempFile, saveLog,
                   syncVars, batchVars, schedVars>>

\* the sleep ends: the next delay, attempt++, and the loop test; throw
\* lastError when the loop is over
SleepEnds ==
    /\ retry.at = "sleeping"
    /\ LET opts == RetryOptions(retry.policy)
           next == [retry EXCEPT !.attempt = @ + 1,
                                 !.delay = Min(@ * opts.backoffFactor, opts.maxDelay)]
       IN retry' = IF next.attempt <= opts.maxAttempts
                   THEN [next EXCEPT !.at = "calling"]
                   ELSE [next EXCEPT !.at = "thrown"]
    /\ clock' = clock + retry.slept
    /\ UNCHANGED <<breaker, breakerLog, otherVars, limiter, limiterFile, call, venueLog,
                   fileVars, tempFile, saveLog, syncVars, batchVars, schedVars>>

NextRetry == WithRetryStart \/ FnResolves \/ FnRejects \/ SleepEnds

(***************************************************************************)
(* Properties of runs as their callers see them.                           *)
(***************************************************************************)
\* runAllSyncs: try { await engine.run(store); status 'success' }
\* catch { status 'error' }
SyncResultOf(res) == IF res.thrown THEN "error" ELSE "success"

\* C21: a run that receives an empty SoT inventory is surfaced to its
\* caller as an error: the sweep counts the store as failed.
C21_EmptyInventoryFailsTheStore ==
    (pc = "done" /\ runInfo.sotEmpty) => SyncResultOf(result) = "error"

\* C26: at every point of a run that pushes (no bootstrap, no dry run, no
\* limit), a quantity that the state file holds for a SKU and that the
\* state the run loaded did not hold has been acknowledged by the
\* marketplace: an acknowledged inventory request of the run carries it.
C26_PersistedQuantityWasAcknowledged ==
    (PushingRun /\ ~options.dryRun /\ options.limit = 0) =>
        \A i \in DOMAIN Persisted :
            LET entry == Persisted[i] IN
            (\/ ~Has(runInfo.loaded, entry.sku)
             \/ Get(runInfo.loaded, entry.sku).quantity # entry.quantity)
            => \E k \in DOMAIN AckedRequests :
                  /\ AckedRequests[k].api = "inventory"
                  /\ Holds(AckedRequests[k].data,
                           InventoryUpdate(entry.sku, entry.quantity))

C28_OpensOnConsecutiveFailuresOnly ==
    (breakerLog.was = "closed" /\ breakerLog.last = "failure")
        => (breaker.state = "open"
              <=> breakerLog.streak >= BreakerOptions(breaker.name).failureThreshold)

\* C29: a call made while the breaker is open and before openedAt + timeout
\* fails with a CircuitBreakerError that carries the breaker's name, and the
\* operation is not invoked; a call made at or after openedAt + timeout
\* invokes the operation in the half-open state.  openedAt + timeout is
\* the breaker's nextAttemptTime, and getState reports half-open from that
\* time on.
C29_OpenFailsFastUntilTheTimeout ==
    /\ (breakerLog.was = "open" /\ breakerLog.at < breakerLog.nextWas)
          => /\ breakerLog.last = "rejected"
             /\ breakerLog.ranIn = "none"
             /\ breakerLog.errorName = breaker.name
             /\ breaker.state = "open"
             /\ breaker.nextAttemptTime = breakerLog.nextWas
    /\ (breakerLog.was = "open" /\ breakerLog.at >= breakerLog.nextWas)
          => /\ breakerLog.last \in {"success", "failure"}
             /\ breakerLog.ranIn = "half-open"
    /\ breaker.state = "open"
          => /\ breaker.nextAttemptTime
                  = breaker.lastFailureTime + BreakerOptions(breaker.name).timeout
             /\ GetState(breaker, clock) = "half-open"
                  <=> clock >= breaker.nextAttemptTime

C29_Witness ==
    /\ breakerLog.was = "open"
    /\ breakerLog.at = breakerLog.nextWas
    /\ breakerLog.ranIn = "half-open"
    /\ breakerLog.calls > FinaFailureThreshold + 1

\* C30: a call that the half-open breaker lets through and that succeeds
\* closes the breaker when it is the successThreshold-th success in a row
\* since the breaker became half-open, and leaves it half-open before that;
\* one that fails opens the breaker again, with a new timeout that starts
\* at the failure.
C30_HalfOpenClosesOrReopens ==
    /\ (breakerLog.ranIn = "half-open" /\ breakerLog.last = "success")
          => IF breakerLog.probes >= BreakerOptions(breaker.name).successThreshold
             THEN /\ breaker.state = "closed"
                  /\ breaker.failures = 0
                  /\ breakerLog.probes = BreakerOptions(breaker.name).successThreshold
             ELSE /\ breaker.state = "half-open"
                  /\ breaker.successes = breakerLog.probes
    /\ (breakerLog.ranIn = "half-open" /\ breakerLog.last = "failure")
          => /\ breaker.state = "open"
             /\ breaker.nextAttemptTime
                  = breakerLog.doneAt + BreakerOptions(breaker.name).timeout

C30_Witness ==
    /\ breakerLog.ranIn = "half-open"
    /\ breakerLog.last = "success"
    /\ breaker.state = "closed"

\* C22: withRetry invokes the operation at most maxAttempts times; what it
\* returns is the result of the first invocation that succeeded; when the
\* classifier rejects an error it throws that error with no sleep and no
\* attempt after it; when every attempt failed it throws the last error
\* after maxAttempts invocations.
C22_AtMostMaxAttempts ==
    retry.at # "idle" =>
       /\ retry.invoked <= RetryOptions(retry.policy).maxAttempts
       /\ retry.at = "returned"
             => /\ retry.returned = retry.invoked
                /\ retry.sleeps = retry.invoked - 1
       /\ retry.at = "thrown"
             => /\ retry.sleeps = retry.invoked - 1
                /\ \/ ClassifierRejects(retry.policy, retry.lastError)
                   \/ retry.invoked = RetryOptions(retry.policy).maxAttempts
       /\ (retry.at \in {"sleeping", "calling"} /\ retry.invoked > 0)
             => ~ClassifierRejects(retry.policy, retry.lastError)

C22_Witness ==
    /\ retry.at = "thrown"
    /\ retry.policy = "withWoltApiRetry"
    /\ retry.invoked = WoltMaxAttempts

\* C23: under withWoltApiRetry a failed attempt is followed by another one
\* exactly when attempts remain and the error has no response, or has a 5xx
\* status, or has status 429; an error with status 409 or another 4xx is
\* thrown by the attempt that met it.
C23_MarketplaceRetryPolicy ==
    (retry.policy = "withWoltApiRetry" /\ retry.invoked > 0
        /\ retry.at \in {"sleeping", "thrown"})
    => LET status == retry.lastError.status IN
       /\ retry.at = "sleeping"
            <=> /\ retry.invoked < WoltMaxAttempts
                /\ status = 0 \/ status \in 500..599 \/ status = 429
       /\ (status \in 400..499 /\ status # 429) => retry.at = "thrown"

C23_Witness ==
    /\ retry.policy = "withWoltApiRetry"
    /\ retry.at = "thrown"
    /\ retry.lastError.status = 409
    /\ retry.invoked = 1

(***************************************************************************)
(* PriorityScorer (src/src/core/priorityScorer.ts).  A price is a          *)
(* JavaScript value: next to the JSON values, the number Infinity, which    *)
(* JSON.parse gives for a literal such as 1e999.                           *)
(***************************************************************************)
InStockWeight      == 100    \* PRIORITY_IN_STOCK_WEIGHT default
HighStockWeight    == 20     \* PRIORITY_HIGH_STOCK_WEIGHT default
HighStockThreshold == 50     \* PRIORITY_HIGH_STOCK_THRESHOLD default
HighValueWeight    == 15     \* PRIORITY_HIGH_VALUE_WEIGHT default
HighValueThreshold == 50     \* PRIORITY_HIGH_VALUE_THRESHOLD default
LowStockWeight     == 10     \* PRIORITY_LOW_STOCK_WEIGHT default
LowStockThreshold  == 5      \* PRIORITY_LOW_STOCK_THRESHOLD default

MaxScored == 2          \* items handed to the scorer in one call

JInfinity == [t |-> "inf", v |-> 1]

\* typeof x === 'number'
IsNumber(x) == x.t \in {"num", "inf"}

\* x < n and x >= n for a number x and a finite n
NumberBelow(x, n)   == IF x.t = "num" THEN x.v < n ELSE x.t = "inf" /\ x.v < 0
NumberAtLeast(x, n) == IF x.t = "num" THEN x.v >= n ELSE x.t = "inf" /\ x.v > 0

\* typeof detail.price !== 'number' || detail.price < 0
PriceIsInvalid(price) == ~IsNumber(price) \/ NumberBelow(price, 0)

\* calculatePriority(inventory, detail)
CalculatePriority(inventory, detail) ==
    IF PriceIsInvalid(detail.price)
    THEN [score |-> 0, reason |-> <<"invalid-price">>]
    ELSE IF ~(inventory.rest > 0)
    THEN [score |-> 0, reason |-> <<"out-of-stock">>]
    ELSE LET high  == inventory.rest >= HighStockThreshold
             low   == inventory.rest > 0 /\ inventory.rest <= LowStockThreshold
             value == NumberAtLeast(detail.price, HighValueThreshold)
         IN [score |-> InStockWeight
                        + (IF high THEN HighStockWeight ELSE 0)
                        + (IF low THEN LowStockWeight ELSE 0)
                        + (IF value THEN HighValueWeight ELSE 0),
             reason |-> <<"in-stock">>
                        \o (IF high THEN <<"high-stock">> ELSE <<>>)
                        \o (IF low THEN <<"low-stock">> ELSE <<>>)
                        \o (IF value THEN <<"high-value">> ELSE <<>>)]

\* new Map(details.map(d => [d.id, d])).get(id): the last detail of the id
\* (0: none)
DetailAt(details, id) ==
    IF \E i \in DOMAIN details : details[i].id = id
    THEN CHOOSE i \in DOMAIN details :
            /\ details[i].id = id
            /\ \A j \in DOMAIN details : details[j].id = id => j <= i
    ELSE 0

\* scored.sort((a, b) => b.priority - a.priority): a stable sort, highest
\* first; item goes in after the items that do not rank below it.
RECURSIVE SortedByPriority(_)
SortedByPriority(items) ==
    IF items = <<>> THEN <<>>
    ELSE LET rest   == SortedByPriority(SubSeq(items, 1, Len(items) - 1))
             item   == items[Len(items)]
             before == {i \in DOMAIN rest : rest[i].priority >= item.priority}
             k      == Cardinality(before)
         IN SubSeq(rest, 1, k) \o <<item>> \o SubSeq(rest, k + 1, Len(rest))

\* scoreAndSort before the sort: the first k inventory items
RECURSIVE ScoredItems(_, _, _)
ScoredItems(inventory, details, k) ==
    IF k = 0 THEN <<>>
    ELSE LET acc     == ScoredItems(inventory, details, k - 1)
             item    == inventory[k]
             at      == DetailAt(details, item.id)
             woltSku == MapToWoltSku(details, item.id)
         IN IF at = 0 \/ woltSku = "" THEN acc
            ELSE LET priority == CalculatePriority(item, details[at])
                 IN Append(acc, [id |-> item.id, rest |-> item.rest,
                                 price |-> details[at].price, woltSku |-> woltSku,
                                 priority |-> priority.score,
                                 reason |-> priority.reason])

\* scoreAndSort(inventory, details, finaIdToWoltSku)
ScoreAndSort(inventory, details) ==
    SortedByPriority(ScoredItems(inventory, details, Len(inventory)))

\* getTopPriority(scoredItems, limit)
GetTopPriority(scoredItems, limit) ==
    LET validItems == SelectSeq(scoredItems, LAMBDA item : item.priority > 0)
    IN SubSeq(validItems, 1, Min(limit, Len(validItems)))

\* What the SoT may hand to the scorer: up to MaxScored products, each with
\* a stock, and details for the first d of them.
ScorerInputs ==
    UNION {{[inventory |-> [i \in 1..n |-> InventoryItem(i, rests[i])],
             details |-> [i \in 1..d |-> Detail(i, prices[i], fields[i])]] :
               rests \in [1..n -> {0, 1, LowStockThreshold + 1, HighStockThreshold}],
               prices \in [1..d -> {JMissing, JNull, JStr, JNum(-1), JNum(0),
                                    JNum(HighValueThreshold), JInfinity}],
               fields \in [1..d -> {"", "A"}]} :
           n \in 1..MaxScored, d \in 0..MaxScored}

InitScorer ==
    scored = [at |-> "idle", items |-> <<>>, limit |-> 0, top |-> <<>>]

\* prioritySync scores what the SoT returned ...
ScoreAndSortCall ==
    /\ scored.at = "idle"
    /\ \E input \in ScorerInputs :
          /\ Len(input.details) <= Len(input.inventory)
          /\ scored' = [scored EXCEPT !.at = "scored",
                           !.items = ScoreAndSort(input.inventory, input.details)]
    /\ UNCHANGED <<coreVars, notScored>>

\* ... and takes the top of it.
GetTopPriorityCall ==
    /\ scored.at = "scored"
    /\ \E limit \in 0..MaxScored :
          scored' = [scored EXCEPT !.at = "top", !.limit = limit,
                                   !.top = GetTopPriority(scored.items, limit)]
    /\ UNCHANGED <<coreVars, notScored>>

NextScorer == ScoreAndSortCall \/ GetTopPriorityCall

\* C31: calculatePriority gives score 0 and reason invalid-price to every
\* item whose price is absent or is not a non-negative finite number,
\* whatever its stock; score 0 and reason out-of-stock to an item with a
\* valid price and quantity 0; and at least inStockWeight to every other
\* item; getTopPriority returns no item with score 0.
C31_ScoresFollowPriceAndStock ==
    /\ \A i \in DOMAIN scored.items :
          LET item  == scored.items[i]
              valid == item.price.t = "num" /\ item.price.v >= 0
          IN /\ ~valid => (item.priority = 0 /\ item.reason = <<"invalid-price">>)
             /\ (valid /\ item.rest = 0)
                   => (item.priority = 0 /\ item.reason = <<"out-of-stock">>)
             /\ (valid /\ item.rest # 0) => item.priority >= InStockWeight
    /\ \A i \in DOMAIN scored.top : scored.top[i].priority # 0

(***************************************************************************)
(* BackgroundWorker.syncNextBatch (src/src/types/index.ts), SKU by SKU.    *)
(***************************************************************************)
\* unsyncedItems after the first k details (skipIfInState is true)
RECURSIVE UnsyncedItems(_, _, _)
UnsyncedItems(details, state, k) ==
    IF k = 0 THEN <<>>
    ELSE LET acc     == UnsyncedItems(details, state, k - 1)
             woltSku == MapToWoltSku(details, details[k].id)
         IN IF woltSku = "" THEN acc
            ELSE IF Has(state, woltSku) /\ Get(state, woltSku).synced THEN acc
            ELSE Append(acc, [finaId |-> details[k].id, woltSku |-> woltSku])

\* the payloads of batchToSync
WorkerItemUpdates(batch, details, inventory) ==
    [k \in DOMAIN batch |->
        ItemUpdate(batch[k].woltSku, StockOf(inventory, batch[k].finaId) > 0,
                   details[DetailAt(details, batch[k].finaId)].price)]

WorkerInventoryUpdates(batch, inventory) ==
    [k \in DOMAIN batch |->
        InventoryUpdate(batch[k].woltSku, StockOf(inventory, batch[k].finaId))]

\* // Mark items as synced in state: the first k items of batchToSync
RECURSIVE MarkedAsSynced(_, _, _)
MarkedAsSynced(state, batch, k) ==
    IF k = 0 THEN state
    ELSE LET acc   == MarkedAsSynced(state, batch, k - 1)
             sku   == batch[k].woltSku
             entry == IF Has(acc, sku) THEN Get(acc, sku)
                      ELSE Entry(sku, 0, FALSE, JNum(0), FALSE)
         IN Put(acc, [entry EXCEPT !.synced = TRUE])

MaxIterations == 2      \* iterations of runLoop that the model follows

\* The worker between two iterations, the first `iteration` of them done.
IdleWorker(iteration) ==
    [pc |-> "idle", iteration |-> iteration,
     sot |-> [inventory |-> <<>>, details |-> <<>>], state |-> <<>>,
     batch |-> <<>>, itemUpdates |-> <<>>, inventoryUpdates |-> <<>>, i |-> 0, size |-> 0, shouldStop |-> FALSE,
     itemsAcked |-> {}, inventoryAcked |-> {}, marked |-> {}]

InitWorker == worker = IdleWorker(0)

workerFrame == <<backupFile, loadResult, tempFile, saveLog, syncVars, push,
                 batchLog, rateVars, schedVars, breaker, breakerLog, retry,
                 notWorker>>

\* The iteration up to the first marketplace call: loadState, the SoT's
\* answers, unsyncedItems, batchToSync, the payloads and the batch size.
SyncNextBatchStart ==
    /\ worker.pc = "idle"
    /\ worker.iteration < MaxIterations
    /\ \E inventory \in Inventories :
       \E details \in DetailsOf(inventory) :
        LET state    == LoadState(stateFile, backupFile).state
            idle     == IdleWorker(worker.iteration + 1)
            unsynced == UnsyncedItems(details, state, Len(details))
            batch    == SubSeq(unsynced, 1, Min(DailyLimit, Len(unsynced)))
        IN IF Len(unsynced) = 0
           THEN /\ worker' = [idle EXCEPT !.pc = "done", !.state = state]
                /\ UNCHANGED batcher
           ELSE /\ worker' =
                     [idle EXCEPT
                        !.pc = "items", !.state = state, !.batch = batch,
                        !.sot = [inventory |-> inventory, details |-> details],
                        !.itemUpdates = WorkerItemUpdates(batch, details, inventory),
                        !.inventoryUpdates = WorkerInventoryUpdates(batch, inventory),
                        !.size = ConfigOf(batcher).currentBatchSize]
                /\ batcher' = ConfigOf(batcher)
    /\ UNCHANGED <<stateFile, workerFrame>>

\* The updates of the phase in progress.
WorkerUpdates ==
    IF worker.pc = "items" THEN worker.itemUpdates ELSE worker.inventoryUpdates

\* One iteration of a phase's loop: shouldStop is not set, the call resolves.
WorkerBatchResolves ==
    /\ worker.pc \in {"items", "inventory"}
    /\ ~worker.shouldStop
    /\ worker.i < Len(WorkerUpdates)
    /\ LET acked == SkusIn(BatchAt(WorkerUpdates, worker.i, worker.size)) IN
       IF worker.pc = "items"
       THEN /\ worker' = [worker EXCEPT !.i = @ + worker.size,
                                        !.itemsAcked = @ \cup acked]
            /\ \E rateLimitHit \in BOOLEAN :
                  batcher' = IF rateLimitHit THEN OnRateLimit(batcher)
                             ELSE OnSuccess(batcher)
       ELSE /\ worker' = [worker EXCEPT !.i = @ + worker.size,
                                        !.inventoryAcked = @ \cup acked]
            /\ UNCHANGED batcher
    /\ UNCHANGED <<stateFile, workerFrame>>

\* One iteration of a phase's loop: the call rejects, syncNextBatch throws.
WorkerBatchRejects ==
    /\ worker.pc \in {"items", "inventory"}
    /\ ~worker.shouldStop
    /\ worker.i < Len(WorkerUpdates)
    /\ worker' = [worker EXCEPT !.pc = "failed"]
    /\ UNCHANGED <<stateFile, batcher, workerFrame>>

\* stop(), called while the iteration waits for the marketplace or sleeps
\* between two batches.
WorkerStop ==
    /\ worker.pc \in {"items", "inventory"}
    /\ ~worker.shouldStop
    /\ worker' = [worker EXCEPT !.shouldStop = TRUE]
    /\ UNCHANGED <<stateFile, batcher, workerFrame>>

\* Phase 1 is over and shouldStop is not set: phase 2 begins.
WorkerItemsPhaseDone ==
    /\ worker.pc = "items"
    /\ ~worker.shouldStop
    /\ worker.i >= Len(worker.itemUpdates)
    /\ worker' = [worker EXCEPT !.pc = "inventory", !.i = 0]
    /\ UNCHANGED <<stateFile, batcher, workerFrame>>

\* The loops are over, or shouldStop broke them: every item of batchToSync
\* is marked and the state is saved.
WorkerMarksAndSaves ==
    /\ \/ worker.pc = "items" /\ worker.shouldStop
       \/ worker.pc = "inventory"
            /\ (worker.shouldStop \/ worker.i >= Len(worker.inventoryUpdates))
    /\ LET state == MarkedAsSynced(worker.state, worker.batch, Len(worker.batch)) IN
       /\ worker' = [worker EXCEPT
                        !.pc = "done", !.state = state,
                        !.marked = {worker.batch[k].woltSku : k \in DOMAIN worker.batch}]
       /\ SaveFromRun(state)
    /\ UNCHANGED <<batcher, workerFrame>>

\* syncNextBatch has returned or thrown; runLoop sleeps until the next one.
WorkerIterationEnds ==
    /\ worker.pc \in {"done", "failed"}
    /\ worker' = IdleWorker(worker.iteration)
    /\ UNCHANGED <<stateFile, batcher, workerFrame>>

NextWorker ==
    \/ SyncNextBatchStart
    \/ WorkerBatchResolves
    \/ WorkerBatchRejects
    \/ WorkerStop
    \/ WorkerItemsPhaseDone
    \/ WorkerMarksAndSaves
    \/ WorkerIterationEnds

\* C32: an iteration of the worker sets the synced flag only on SKUs whose
\* item update and inventory update were both acknowledged by the
\* marketplace in that iteration, also when stop is requested while the
\* iteration is pushing batches.
C32_MarkedSkusWereAcknowledged ==
    \A sku \in worker.marked :
        sku \in worker.itemsAcked /\ sku \in worker.inventoryAcked

\* C35: an entry that carries the synced flag when a SyncEngine run loads
\* the state still carries it in the state file after the run has ended
\* with success, if its SKU is in the run's SoT view.
C35_SyncedFlagSurvivesARun ==
    (pc = "done" /\ result.status = "success" /\ runInfo.viewBuilt)
        => \A i \in DOMAIN runInfo.loaded :
              LET entry == runInfo.loaded[i] IN
              (entry.synced /\ Has(runInfo.view, entry.sku))
                  => /\ Has(Persisted, entry.sku)
                     /\ Get(Persisted, entry.sku).synced

(***************************************************************************)
(* A scheduled SyncEngine run that begins while an iteration of the        *)
(* store's BackgroundWorker is pushing: both work on the store's state     *)
(* file, each from the copy it loaded.                                     *)
(***************************************************************************)
\* syncEngine.run(store) of the scheduler, no options; the SoT answers the
\* engine as it answered the worker.
ScheduledRunStart ==
    /\ worker.pc \in {"items", "inventory"}
    /\ RunStartWith({NoOptions}, {[inventory |-> worker.sot.inventory,
                                    details |-> worker.sot.details]})
    /\ UNCHANGED callVars

\* One iteration of the worker, and the run that begins during it.
NextOverlap ==
    \/ SyncNextBatchStart
    \/ WorkerBatchResolves
    \/ WorkerBatchRejects
    \/ WorkerStop
    \/ WorkerItemsPhaseDone
    \/ WorkerMarksAndSaves
    \/ ScheduledRunStart
    \/ SendItemsBatch
    \/ SendItemsBatchFails
    \/ ItemsPhaseDone
    \/ SendInventoryBatch
    \/ SendInventoryBatchFails
    \/ SaveFinalState

\* C36: when an iteration of the worker and a SyncEngine run of the same
\* store have overlapped and both have finished, the state file holds
\* what each of them persisted: the synced flag on every SKU the worker
\* marked, and the engine's quantity, enabled and price of every SKU of its
\* new state.
C36_BothWritersUpdatesSurvive ==
    (/\ pc = "done" /\ result.status = "success"
     /\ worker.pc = "done" /\ worker.marked # {})
        => /\ \A sku \in worker.marked :
                Has(Persisted, sku) /\ Get(Persisted, sku).synced
           /\ \A i \in DOMAIN newState :
                /\ Has(Persisted, newState[i].sku)
                /\ LET kept == Get(Persisted, newState[i].sku) IN
                   /\ kept.quantity = newState[i].quantity
                   /\ kept.enabled = newState[i].enabled
                   /\ kept.price = newState[i].price

(***************************************************************************)
(* The components of one process that call the marketplace for a venue.    *)
(* SyncEngine, HybridSyncOrchestrator and BackgroundWorker each construct  *)
(* a WoltAdapter (part_002:27, hybridSync.ts:44, types/index.ts:104); an   *)
(* adapter has its own queue and its own map of limiters.                  *)
(***************************************************************************)
Components == {"SyncEngine", "BackgroundWorker"}

MaxWire == 3            \* requests the venue is sent in one behaviour

\* An adapter: the limiter getRateLimiter returns for the venue, and the
\* task its queue is running (concurrency 1: none or one).
InitAdapters ==
    /\ adapters = [c \in Components |->
                     [limiter |-> Limiter(0, 0, 0), at |-> "idle", issuedAt |-> 0]]
    /\ wire = [count |-> 0, issuedAt |-> 0, gap |-> 0, interval |-> 0]

adapterFrame == <<limiter, call, venueLog, fileVars, tempFile, saveLog, syncVars,
                  batchVars, schedVars, breaker, breakerLog, retry, notAdapters>>

\* updateItems / updateInventory of component c: the queue starts the task,
\* waitForTurn reloads the venue's entry, sleeps until the gate and notes
\* the time; the request is issued.
AdapterIssues(c) ==
    /\ adapters[c].at = "idle"
    /\ wire.count < MaxWire
    /\ \E idle \in IdleGaps :
        LET loaded == LimiterLoadState(adapters[c].limiter, limiterFile)
            now    == Max(clock + idle, GateAt(loaded))
        IN /\ clock' = now
           /\ adapters' = [adapters EXCEPT
                             ![c] = [limiter |-> [loaded EXCEPT !.lastRequestAtMs = now],
                                     at |-> "inflight", issuedAt |-> now]]
           /\ wire' = [count |-> wire.count + 1, issuedAt |-> now,
                       gap |-> now - wire.issuedAt,
                       interval |-> Max(MinIntervalMs, loaded.learnedMinIntervalMs)]
    /\ UNCHANGED <<limiterFile, adapterFrame>>

\* 2xx: limiter.onSuccess(), the task is done.
AdapterSucceeds(c) ==
    /\ adapters[c].at = "inflight"
    /\ LET now == Max(clock, adapters[c].issuedAt + LatencyMs) IN
       /\ clock' = now
       /\ adapters' = [adapters EXCEPT
                         ![c].limiter = LimiterOnSuccess(@, now),
                         ![c].at = "idle"]
    /\ UNCHANGED <<wire, limiterFile, adapterFrame>>

\* 429: limiter.onRateLimited(retry-after), saved when it blocks; the next
\* attempt of withRetry passes through waitForTurn like a new call.
AdapterRateLimited(c) ==
    /\ adapters[c].at = "inflight"
    /\ \E header \in RetryAfterHeaders, jitter \in Jitters :
        LET now     == Max(clock, adapters[c].issuedAt + LatencyMs)
            limited == OnRateLimited(adapters[c].limiter, header, now, jitter)
        IN /\ header.kind = "none" => jitter = 0
           /\ clock' = now
           /\ adapters' = [adapters EXCEPT ![c].limiter = limited, ![c].at = "idle"]
           /\ limiterFile' = IF ParseRetryAfterMs(header) > 0
                             THEN LimiterSaveState(limited) ELSE limiterFile
    /\ UNCHANGED <<wire, adapterFrame>>

NextVenue ==
    \E c \in Components :
        AdapterIssues(c) \/ AdapterSucceeds(c) \/ AdapterRateLimited(c)

InitProc == proc = [signalled |-> FALSE, connections |-> 0, exited |-> FALSE]

\* A request (GET /health, say) is being served.
ConnectionOpens ==
    /\ ~proc.signalled /\ proc.connections = 0
    /\ proc' = [proc EXCEPT !.connections = 1]
    /\ UNCHANGED <<coreVars, notProc>>

\* The connection ends; a server that is closing runs its callback:
\* process.exit(0).
ConnectionCloses ==
    /\ ~proc.exited /\ proc.connections = 1
    /\ proc' = [proc EXCEPT !.connections = 0, !.exited = proc.signalled]
    /\ UNCHANGED <<coreVars, notProc>>

\* process.on('SIGTERM' | 'SIGINT'): server.close(() => process.exit(0))
SignalReceived ==
    /\ ~proc.signalled
    /\ proc' = [proc EXCEPT !.signalled = TRUE, !.exited = (proc.connections = 0)]
    /\ UNCHANGED <<coreVars, notProc>>

\* The scheduler's callbacks run as long as the process lives.
SchedulerStep == ~proc.exited /\ NextSched

NextShutdown ==
    \/ SchedulerStep
    \/ ConnectionOpens
    \/ ConnectionCloses
    \/ SignalReceived

\* C34: once SIGINT or SIGTERM has been received the process starts no new
\* sweep, and it does not exit while a sweep is in progress.
C34_GracefulShutdown ==
    [][ /\ (proc.signalled /\ ~isSyncing) => ~isSyncing'
        /\ (~proc.exited /\ proc'.exited) => ~isSyncing
      ]_vars

(***************************************************************************)
(* HybridSyncOrchestrator.initialize (src/src/core/hybridSync.ts)          *)
(***************************************************************************)
InitHybrid ==
    hybrid = [phase |-> "idle", sot |-> [inventory |-> <<>>, details |-> <<>>],
              written |-> <<>>, bootstrapped |-> FALSE, priorityFailed |-> FALSE,
              workerStarted |-> FALSE, last |-> "none"]

hybridFrame == <<backupFile, loadResult, tempFile, saveLog, syncVars, batchVars,
                 rateVars, schedVars, breaker, breakerLog, retry, notHybrid>>

\* (state[sku] as any).syncedToWolt = true for every sku of skus that the
\* state holds
FlaggedAsSynced(state, skus) ==
    [i \in DOMAIN state |->
        IF state[i].sku \in skus THEN [state[i] EXCEPT !.synced = TRUE]
        ELSE state[i]]

\* initialize of a store that has state: "already initialized"
InitializeReturnsEarly ==
    /\ hybrid.phase = "idle"
    /\ Len(LoadState(stateFile, backupFile).state) > 0
    /\ hybrid' = [hybrid EXCEPT !.last = "already"]
    /\ UNCHANGED <<stateFile, hybridFrame>>

\* initialize of a store without state, phase 1: bootstrapState
InitializeBootstraps ==
    /\ hybrid.phase = "idle"
    /\ Len(LoadState(stateFile, backupFile).state) = 0
    /\ \E inventory \in Inventories :
       \E details \in DetailsOf(inventory) :
        LET state == HybridState(details, inventory, Len(details)) IN
        /\ SaveFromRun(state)
        /\ hybrid' = [hybrid EXCEPT
                        !.phase = "introspection",
                        !.sot = [inventory |-> inventory, details |-> details],
                        !.written = state, !.bootstrapped = TRUE,
                        !.last = "none"]
    /\ UNCHANGED hybridFrame

\* phase 2: introspectWolt and, if it found items, mergeWoltState; a
\* failure is swallowed.
InitializeIntrospects ==
    /\ hybrid.phase = "introspection"
    /\ \E found \in SUBSET Skus :
        LET state == LoadState(stateFile, backupFile).state IN
        IF found = {} THEN UNCHANGED stateFile
        ELSE SaveFromRun(FlaggedAsSynced(state, found))
    /\ hybrid' = [hybrid EXCEPT !.phase = "priority"]
    /\ UNCHANGED hybridFrame

\* phase 3 resolves: prioritySync flags what it sent; phase 4 starts the
\* worker; initialize returns.
InitializeCompletes ==
    /\ hybrid.phase = "priority"
    /\ LET top   == GetTopPriority(ScoreAndSort(hybrid.sot.inventory,
                                                hybrid.sot.details),
                                   PriorityLimit)
           state == LoadState(stateFile, backupFile).state
       IN IF Len(top) = 0 THEN UNCHANGED stateFile
          ELSE SaveFromRun(FlaggedAsSynced(state,
                               {top[k].woltSku : k \in DOMAIN top}))
    /\ hybrid' = [hybrid EXCEPT !.phase = "idle", !.workerStarted = TRUE,
                                !.last = "complete"]
    /\ UNCHANGED hybridFrame

\* phase 3 rejects (the SoT or the marketplace fails): initialize rejects.
InitializeFailsInPrioritySync ==
    /\ hybrid.phase = "priority"
    /\ hybrid' = [hybrid EXCEPT !.phase = "idle", !.priorityFailed = TRUE,
                                !.last = "threw"]
    /\ UNCHANGED <<stateFile, hybridFrame>>

NextHybrid ==
    \/ InitializeReturnsEarly
    \/ InitializeBootstraps
    \/ InitializeIntrospects
    \/ InitializeCompletes
    \/ InitializeFailsInPrioritySync

\* C40: when initialize has failed during priority sync after its bootstrap
\* phase wrote the store's state, a later initialize call performs the
\* priority sync and starts the BackgroundWorker: the worker is eventually
\* started.
C40_WorkerIsEventuallyStarted ==
    (hybrid.bootstrapped /\ hybrid.priorityFailed /\ Len(Persisted) > 0)
        ~> hybrid.workerStarted

\* C39: the state the orchestrator's bootstrap phase writes is the state a
\* SyncEngine bootstrap run writes from the same inventory and details:
\* the same SKUs with the same quantity (summed over the products of a
\* SKU), enabled and price.
C39_HybridBootstrapEqualsEngineBootstrap ==
    (/\ hybrid.bootstrapped
     /\ ~InventoryIsEmpty(hybrid.sot.inventory)
     /\ ~DetailsAreShort(hybrid.sot.details, hybrid.sot.inventory))
        => LET engine == NewState(<<>>, WoltData(hybrid.sot.details,
                                                 hybrid.sot.inventory,
                                                 Len(hybrid.sot.details)))
           IN /\ SkusIn(hybrid.written) = SkusIn(engine)
              /\ \A i \in DOMAIN engine :
                    Get(hybrid.written, engine[i].sku) = engine[i]

\* C37: if the primary or the backup state file of a store holds a valid
\* state map before a saveState call, one of the two still does when the
\* call is over (and so at every step of it, and after a crash).
C37_OneValidFileSurvivesASave ==
    [][ (ReadStateFile(stateFile).ok \/ ReadStateFile(backupFile).ok)
            => (ReadStateFile(stateFile).ok \/ ReadStateFile(backupFile).ok)'
      ]_vars

(***************************************************************************)
(* Two scheduled runs of a store, one after the other, to which the SoT    *)
(* gives the same inventory and the same details.                          *)
(***************************************************************************)
InitRerun ==
    rerun = [stage |-> "none", inventory |-> <<>>, details |-> <<>>]

FirstRunStart ==
    /\ rerun.stage = "none"
    /\ \E inventory \in Inventories :
       \E details \in DetailsOf(inventory) :
        /\ RunStartWith({NoOptions}, {[inventory |-> inventory,
                                        details |-> details]})
        /\ rerun' = [stage |-> "first", inventory |-> inventory,
                     details |-> details]
    /\ UNCHANGED notRerun

\* The first run has ended with success; the engine is ready for the next.
FirstRunReturns ==
    /\ rerun.stage = "first"
    /\ result.status = "success"
    /\ RunReturns
    /\ rerun' = [rerun EXCEPT !.stage = "between"]
    /\ UNCHANGED notRerun

SecondRunStart ==
    /\ rerun.stage = "between"
    /\ RunStartWith({NoOptions}, {[inventory |-> rerun.inventory,
                                    details |-> rerun.details]})
    /\ rerun' = [rerun EXCEPT !.stage = "second"]
    /\ UNCHANGED notRerun

NextRerun ==
    \/ FirstRunStart
    \/ FirstRunReturns
    \/ SecondRunStart
    \/ SendItemsBatch
    \/ SendItemsBatchFails
    \/ ItemsPhaseDone
    \/ SendInventoryBatch
    \/ SendInventoryBatchFails
    \/ SaveFinalState

\* C38: when a non-limited run has completed with success and the next run
\* of the store is given the same inventory and the same details, the
\* second run sends no item update and no inventory update.
C38_SecondRunSendsNothing ==
    rerun.stage = "second"
        => /\ itemUpdates = <<>>
           /\ inventoryUpdates = <<>>
           /\ requests = <<>>

(***************************************************************************)
(* Specifications                                                          *)
(***************************************************************************)
\* No marketplace call made yet, no withRetry call in progress.
InitOther == InitScorer /\ InitWorker /\ InitAdapters /\ InitProc /\ InitHybrid /\ InitRerun

InitCall == InitBreaker("Wolt API") /\ InitRetry /\ InitOther

InitIdle ==
    /\ InitSave /\ InitBatch /\ InitRate /\ InitCall
    /\ StartedWith([s \in StoreIds |-> TRUE], 0)

InitAll == InitFiles /\ InitSync /\ InitIdle

SpecSync == InitAll /\ [][NextSync]_vars

SpecBatch == InitAll /\ [][NextBatch]_vars

SpecPush == InitAll /\ [][NextPush]_vars

SpecRate == InitAll /\ [][NextRate]_vars

InitState == InitAnyFiles /\ InitSync /\ InitIdle

SpecState == InitState /\ [][NextState]_vars

\* The files a run may find: no primary or an unreadable one, next to a
\* backup or none; or a primary with an entry.
InitBeforeRun ==
    LET RunFiles ==
          {ToJson(<<Entry("A", 1, TRUE, JNum(5), FALSE)>>),
           ToJson(<<Entry("A", 0, FALSE, JMissing, FALSE),
                    Entry("B", 1, TRUE, JNum(5), FALSE)>>)}
    IN /\ stateFile \in {AbsentFile, GarbageFile} \cup RunFiles
       /\ backupFile \in {AbsentFile} \cup RunFiles
       /\ loadResult = NotLoaded
       /\ InitSync /\ InitIdle

SpecRun == InitBeforeRun /\ [][NextRun]_vars

\* A store's first saves: no primary yet, or one that cannot be read.
InitBeforeSave ==
    /\ stateFile \in {AbsentFile, GarbageFile}
    /\ backupFile = AbsentFile
    /\ loadResult = NotLoaded
    /\ InitSync /\ InitIdle

SpecSave == InitBeforeSave /\ [][NextSave]_vars

InitProcess ==
    /\ InitFiles /\ InitSync /\ InitSave /\ InitBatch /\ InitRate /\ InitCall
    /\ InitSched

SpecSched == InitProcess /\ [][NextSched]_vars

\* One of the two pre-configured breakers, in a process that has just started.
InitCircuit ==
    /\ \E name \in {"Fina API", "Wolt API"} : InitBreaker(name)
    /\ InitRetry /\ InitOther
    /\ InitFiles /\ InitSync /\ InitSave /\ InitBatch /\ InitRate
    /\ StartedWith([s \in StoreIds |-> TRUE], 0)

SpecBreaker == InitCircuit /\ [][BreakerCall]_vars

SpecRetry == InitAll /\ [][NextRetry]_vars

SpecScorer == InitAll /\ [][NextScorer]_vars

\* The state a worker may find: none, or entries with and without the flag.
InitBeforeWorker ==
    /\ stateFile \in {AbsentFile,
                      ToJson(<<Entry("A", 1, TRUE, JNum(5), TRUE)>>),
                      ToJson(<<Entry("A", 1, TRUE, JNum(5), FALSE),
                               Entry("B", 0, FALSE, JNum(7), TRUE)>>)}
    /\ backupFile = AbsentFile
    /\ loadResult = NotLoaded
    /\ InitSync /\ InitIdle

SpecWorker == InitBeforeWorker /\ [][NextWorker]_vars

SpecShutdown == InitProcess /\ [][NextShutdown]_vars

\* initialize is called again and again (at every start of the process).
SpecHybrid == InitAll /\ [][NextHybrid]_vars /\ WF_vars(NextHybrid)

SpecRerun == InitBeforeRun /\ [][NextRerun]_vars

SpecVenue == InitAll /\ [][NextVenue]_vars

SpecOverlap == InitBeforeWorker /\ [][NextOverlap]_vars

\* A SyncEngine run of a store whose state carries synced flags.
SpecFlagged == InitBeforeWorker /\ [][NextRun]_vars

====
